---------------------------- MODULE Spec2Model ----------------------------
(* The commit/undo engine of the storage core: CommitState walks a          *)
(* transaction's undo log, entry by entry, writing each entry to the        *)
(* write-ahead log (the log sink) and stamping it with the commit id, or    *)
(* reverting the stamps of a failed commit.                                 *)
EXTENDS Integers, Naturals, Sequences, FiniteSets

VARIABLES undo_log, undo_info, has_log, commit_id, current_table_info, delete_chunk, trace,
          version, deleted, cardinality, timestamp, pos, step, end_pos, status, error, scan,
          segments, history, result, persistent, transient, updates, index_scan,
          statistics, stats_lock, writers,
          bind_data, parallel_state, scan_states, ranges,
          connections, py_call, executed,
          py_result, conversion, arrow_stream

\* the state of the commit of a transaction
commit_vars == <<undo_log, undo_info, has_log, commit_id, current_table_info, delete_chunk,
                 trace, version, deleted, cardinality, timestamp, pos, step, end_pos, status,
                 error, scan>>

\* the state of a column: its data SegmentTree, the calls made on it, and
\* what the last scan returned
column_vars == <<segments, history, result>>

\* a PersistentSegment and the TransientSegment constructed from it
promote_vars == <<persistent, transient>>

\* the update SegmentTree of a column, and what the last IndexScan returned
update_vars == <<updates, index_scan>>

\* the statistics of a column, their lock, and the writers that merge
\* statistics into them
stats_vars == <<statistics, stats_lock, writers>>

\* the parallel scan of a data frame: the data frame that is bound, the
\* state the threads share, the state of each thread, and the row ranges
\* handed out so far
pandas_vars == <<bind_data, parallel_state, scan_states, ranges>>

\* the DuckDBPyConnection objects of a database, the last call of a method
\* of one of them with what it raised, and how the last Execute of each
\* connection ended
connection_vars == <<connections, py_call, executed>>

\* the state of the python package, with a DuckDBPyResult, a
\* NumpyResultConversion and a PythonTableArrowArrayStream
python_vars == <<pandas_vars, connection_vars, py_result, conversion, arrow_stream>>

\* what a step of the commit, of the column, of the promotion, of a merge of
\* statistics leaves alone
not_commit_vars == <<column_vars, promote_vars, update_vars, stats_vars, python_vars>>
not_column_vars == <<commit_vars, promote_vars, update_vars, stats_vars, python_vars>>
not_promote_vars == <<commit_vars, column_vars, update_vars, stats_vars, python_vars>>
not_stats_vars == <<commit_vars, column_vars, promote_vars, update_vars, python_vars>>
not_python_vars == <<commit_vars, column_vars, promote_vars, update_vars, stats_vars>>

\* what a step of the scan of a data frame, of a connection leaves alone
not_pandas_vars == <<not_python_vars, connection_vars, py_result, conversion, arrow_stream>>
not_connection_vars == <<not_python_vars, pandas_vars, py_result, conversion, arrow_stream>>
not_result_vars == <<not_python_vars, pandas_vars, connection_vars, conversion, arrow_stream>>
not_conversion_vars == <<not_python_vars, pandas_vars, connection_vars, py_result, arrow_stream>>
not_stream_vars == <<not_python_vars, pandas_vars, connection_vars, py_result, conversion>>

vars == <<commit_vars, column_vars, promote_vars, update_vars, stats_vars, python_vars>>

----------------------------------------------------------------------------
(* Bounds of the model *)

\* longest undo log of the commit traversal
MaxLog == 3
\* longest undo log of the traversal that concurrent readers scan
MaxScanLog == 2
\* largest snapshot (start time) a reader holds
MaxSnapshot == 3
\* the commit id handed to the CommitState of the committing transaction
NewCommitId == 2
\* rows of one vector (1024 in the build)
STANDARD_VECTOR_SIZE == 3
\* most rows one DeleteInfo or UpdateInfo names
MaxCount == 2
\* longest undo log of the traversal over deletions with their row ids
MaxDeleteLog == 2
\* longest undo log of the traversal over updates with their tuples
MaxUpdateLog == 1
\* vectors a segment holds
SegmentVectors == 2
\* most Append and RevertAppend calls on the column
MaxColumnOps == 4

\* calls of Update by the transaction
MaxUpdateCalls == 2

\* writers that merge statistics into those of the column at the same time
MaxWriters == 2

\* threads that scan one data frame at the same time
MaxScanThreads == 2

\* vectors in one partition of a data frame (PANDAS_PARTITION_COUNT is 50
\* vectors in the source)
PartitionVectors == 2

\* partitions of the longest data frame that is scanned
MaxPartitions == 2

\* connections and cursors of one database
MaxConnections == 3

\* statements in the query string of one Execute
MaxStatements == 3

\* parameter sets of one ExecuteMany
MaxParameterSets == 2

\* chunks of the result that is fetched
MaxChunks == 2

\* chunks of the result that FetchNumpy converts
MaxNumpyChunks == 5

\* columns of the result that FetchNumpy converts
MaxColumns == 2

\* record batches of the Arrow table that is streamed
MaxBatches == 3

----------------------------------------------------------------------------
(* Identifiers *)

\* transient (uncommitted) ids live above this high-water mark
TRANSACTION_ID_START == 100

\* the id of the committing transaction, and of another, reading one
transaction_id == TRANSACTION_ID_START + 1
other_transaction_id == TRANSACTION_ID_START + 2

\* the commit id of an earlier, finished transaction
OldCommitId == NewCommitId - 1

\* the version of a row range that RevertAppend truncated out of the table
Truncated == 2 * TRANSACTION_ID_START

nullptr == "nullptr"

\* two permanent tables and one of the temp schema
Tables == {"A", "B", "T"}

IsTemporary(table_info) == table_info = "T"

UndoFlags == {"EMPTY_ENTRY", "CATALOG_ENTRY", "INSERT_TUPLE", "DELETE_TUPLE", "UPDATE_TUPLE"}

CatalogType == {"INVALID", "TABLE_ENTRY", "SCHEMA_ENTRY", "VIEW_ENTRY", "INDEX_ENTRY",
                "PREPARED_STATEMENT", "SEQUENCE_ENTRY", "COLLATION_ENTRY",
                "TABLE_FUNCTION_ENTRY", "SCALAR_FUNCTION_ENTRY", "AGGREGATE_FUNCTION_ENTRY",
                "PRAGMA_FUNCTION_ENTRY", "COPY_FUNCTION_ENTRY", "MACRO_ENTRY",
                "UPDATED_ENTRY", "DELETED_ENTRY"}

Names == {"n", "m"}

----------------------------------------------------------------------------
(* Undo-log entries *)

\* an AppendInfo, DeleteInfo or UpdateInfo on a table (or an entry of a kind
\* the switch does not know)
RowEntry(type, table) ==
    [type |-> type, table |-> table, name |-> "", parent_name |-> "",
     entry_type |-> "INVALID", parent_type |-> "INVALID",
     temporary |-> FALSE, parent_temporary |-> FALSE, timestamp0 |-> 0]

\* a catalog change: the entry, its parent, and the timestamp the entry
\* carried before the commit
CatalogEntry(etype, ptype, name, pname, temp, ptemp, ts0) ==
    [type |-> "CATALOG_ENTRY", table |-> "", name |-> name, parent_name |-> pname,
     entry_type |-> etype, parent_type |-> ptype,
     temporary |-> temp, parent_temporary |-> ptemp, timestamp0 |-> ts0]

RowEntries == {RowEntry(k, t) : k \in {"INSERT_TUPLE", "DELETE_TUPLE", "UPDATE_TUPLE"}, t \in Tables}

UnknownEntries == {RowEntry("EMPTY_ENTRY", "A")}

AllCatalogEntries ==
    {CatalogEntry(et, pt, n, pn, tmp, ptmp, ts) :
        et \in CatalogType, pt \in CatalogType, n \in Names, pn \in {"n"},
        tmp \in BOOLEAN, ptmp \in BOOLEAN, ts \in {OldCommitId, transaction_id}}

\* the catalog changes that the mixed traversal draws on
SomeCatalogEntries ==
    {CatalogEntry("TABLE_ENTRY", "TABLE_ENTRY", "m", "n", FALSE, FALSE, transaction_id),
     CatalogEntry("INVALID", "TABLE_ENTRY", "n", "n", TRUE, FALSE, OldCommitId)}

SeqsUpTo(S, n) == UNION {[1..k -> S] : k \in 1..n}

\* the row offsets of one vector
Offsets == 0..(STANDARD_VECTOR_SIZE - 1)

\* the row ids of a table: two vectors of rows
RowIds == 0..(2 * STANDARD_VECTOR_SIZE - 1)

\* up to n offsets of one vector, in ascending order
AscendingSeqs(n) ==
    {s \in SeqsUpTo(Offsets, n) : \A k \in 1..(Len(s) - 1) : s[k] < s[k + 1]}

\* what an undo entry carries besides its table: of a DeleteInfo the
\* base_row, the count and the rows, of an UpdateInfo the start of its
\* segment, the vector_index, N, the tuples and the index of its column
Info(base_row, rows, segment_start, vector_index, tuples, column_idx) ==
    [base_row |-> base_row, count |-> Len(rows), rows |-> rows,
     segment_start |-> segment_start, vector_index |-> vector_index,
     N |-> Len(tuples), tuples |-> tuples, column_idx |-> column_idx]

DeleteInfos ==
    {Info(b, r, 0, 0, <<>>, 0) : b \in {0, STANDARD_VECTOR_SIZE}, r \in AscendingSeqs(MaxCount)}

UpdateInfos ==
    {Info(0, <<>>, s, v, t, c) : s \in {0, 2 * STANDARD_VECTOR_SIZE}, v \in {0, 1},
                                 t \in AscendingSeqs(MaxCount), c \in {0, 1}}

\* the i-th entry of the log is about the i-th row of its table
DefaultInfo(log) ==
    [i \in DOMAIN log |->
        LET base_row == ((i - 1) \div STANDARD_VECTOR_SIZE) * STANDARD_VECTOR_SIZE
            row == (i - 1) % STANDARD_VECTOR_SIZE
        IN  Info(base_row, <<row>>, 0, 0, <<row>>, 0)]

\* the row ids a DeleteInfo names
DeletedRows(inf) == {inf.base_row + inf.rows[k] : k \in 1..inf.count}

IsCatalog(e) == e.type = "CATALOG_ENTRY"
IsRow(e) == e.type \in {"INSERT_TUPLE", "DELETE_TUPLE", "UPDATE_TUPLE"}

----------------------------------------------------------------------------
(* Calls on the collaborators, in the order they are made *)

Call(op, i, target, id) ==
    [op |-> op, entry |-> i, target |-> target, id |-> id,
     rows |-> <<>>, values |-> <<>>, column |-> 0]

\* a call that hands over a DataChunk: its row ids, and for an update the
\* values and the index of the column
ChunkCall(op, i, target, rows, values, column) ==
    [op |-> op, entry |-> i, target |-> target, id |-> 0,
     rows |-> rows, values |-> values, column |-> column]

LogOps == {"WriteSetTable", "WriteToLog", "WriteDelete", "WriteUpdate", "WriteAlter",
           "WriteCreateTable", "WriteCreateSchema", "WriteCreateView",
           "WriteCreateSequence", "WriteCreateMacro", "WriteDropTable", "WriteDropSchema",
           "WriteDropView", "WriteDropSequence", "WriteDropMacro"}

IsLogCall(c) == c.op \in LogOps
IsMarker(c) == c.op = "WriteSetTable"
IsRecord(c) == IsLogCall(c) /\ ~IsMarker(c)

\* what the log sink received
Wal == SelectSeq(trace, IsLogCall)
Markers == SelectSeq(trace, IsMarker)

----------------------------------------------------------------------------
(* CommitState *)

\* SwitchTable that writes the marker and forgets the table it switched to
SwitchTableStale(cur, table_info, i) ==
    IF cur # table_info
    THEN [calls |-> <<Call("WriteSetTable", i, table_info, 0)>>, current |-> cur]
    ELSE [calls |-> <<>>, current |-> cur]

\* SwitchTable: write the table to the log when it is not the current one.
\* Gives the log calls made and the current table afterwards.
SwitchTable(cur, table_info, i) ==
    IF cur # table_info
    THEN [calls |-> <<Call("WriteSetTable", i, table_info, 0)>>, current |-> table_info]
    ELSE [calls |-> <<>>, current |-> cur]

\* DataTable::WriteToLog: the table layer serializes the inserted row range
WriteToLog(cur, info, i) ==
    [calls |-> <<Call("WriteToLog", i, info.table, 0)>>, current |-> cur]

\* what a vector holds where nothing was written
Uninitialized == 4 * TRANSACTION_ID_START

\* no delete_chunk yet
NoChunk == [data |-> <<>>, count |-> 0]

\* DataChunk::Initialize: one vector of row ids
NewVector == [k \in 1..STANDARD_VECTOR_SIZE |-> Uninitialized]

\* the rows of a chunk that its cardinality covers
Batch(chunk) == SubSeq(chunk.data, 1, chunk.count)

\* WriteDelete that sets the cardinality of a new chunk only
WriteDeleteKeepsCardinality(cur, chunk, e, inf, i) ==
    LET sw == SwitchTable(cur, e.table, i)
        buf == IF chunk = NoChunk THEN NewVector ELSE chunk.data
        data == [k \in 1..STANDARD_VECTOR_SIZE |->
                    IF k <= inf.count THEN inf.base_row + inf.rows[k] ELSE buf[k]]
        filled == [data |-> data,
                   count |-> IF chunk = NoChunk THEN inf.count ELSE chunk.count]
    IN  [calls |-> Append(sw.calls,
                          ChunkCall("WriteDelete", i, e.table, Batch(filled), <<>>, 0)),
         current |-> sw.current, chunk |-> filled]

\* WriteDelete: switch to the table, create the delete_chunk if there is
\* none, write the row ids base_row + rows[i] into its first count rows, set
\* its cardinality, and hand it to the log. Gives the calls, the current
\* table and the delete_chunk afterwards.
WriteDelete(cur, chunk, e, inf, i) ==
    LET sw == SwitchTable(cur, e.table, i)
        buf == IF chunk = NoChunk THEN NewVector ELSE chunk.data
        data == [k \in 1..STANDARD_VECTOR_SIZE |->
                    IF k <= inf.count THEN inf.base_row + inf.rows[k] ELSE buf[k]]
        filled == [data |-> data, count |-> inf.count]
    IN  [calls |-> Append(sw.calls,
                          ChunkCall("WriteDelete", i, e.table, Batch(filled), <<>>, 0)),
         current |-> sw.current, chunk |-> filled]

\* the committed value of a row in the base segment
CommittedValue(row) == 7 * row + 1

\* UpdateSegment::FetchCommitted: the committed values of one vector
FetchCommitted(segment_start, vector_index) ==
    [k \in 1..STANDARD_VECTOR_SIZE |->
        CommittedValue(segment_start + vector_index * STANDARD_VECTOR_SIZE + (k - 1))]

\* a slice that takes the first n rows
SliceFirst(column, sel, n) == [j \in 1..n |-> column[j]]

\* DataChunk::Slice on one column: the rows the selection vector names
Slice(column, sel, n) == [j \in 1..n |-> column[sel[j] + 1]]

\* WriteUpdate that hands over the chunk before it switches to the table
WriteUpdateMarkerLast(cur, e, inf, i) ==
    LET sw == SwitchTable(cur, e.table, i)
    IN  [calls |-> <<ChunkCall("WriteUpdate", i, e.table, <<>>, <<>>, inf.column_idx)>>
                   \o sw.calls,
         current |-> sw.current]

\* WriteUpdate: switch to the table, fetch the committed values of the
\* vector into a new update_chunk, write the row id of each tuple at the
\* offset of the tuple, slice the chunk by the tuples, and hand it to the
\* log with the index of the column
WriteUpdate(cur, e, inf, i) ==
    LET sw == SwitchTable(cur, e.table, i)
        fetched == FetchCommitted(inf.segment_start, inf.vector_index)
        start == inf.segment_start + inf.vector_index * STANDARD_VECTOR_SIZE
        row_ids == [k \in 1..STANDARD_VECTOR_SIZE |->
                       IF \E j \in 1..inf.N : inf.tuples[j] = k - 1
                       THEN start + (k - 1) ELSE Uninitialized]
    IN  [calls |-> Append(sw.calls,
                          ChunkCall("WriteUpdate", i, e.table,
                                    Slice(row_ids, inf.tuples, inf.N),
                                    Slice(fetched, inf.tuples, inf.N), inf.column_idx)),
         current |-> sw.current]

\* the record of a dropped entry, with no CommitDrop of a table
DropCallsNoHook(entry, i) ==
    CASE entry.entry_type = "TABLE_ENTRY" -> <<Call("WriteDropTable", i, "entry", 0)>>
      [] entry.entry_type = "SCHEMA_ENTRY" -> <<Call("WriteDropSchema", i, "entry", 0)>>
      [] entry.entry_type = "VIEW_ENTRY" -> <<Call("WriteDropView", i, "entry", 0)>>
      [] entry.entry_type = "SEQUENCE_ENTRY" -> <<Call("WriteDropSequence", i, "entry", 0)>>
      [] entry.entry_type = "MACRO_ENTRY" -> <<Call("WriteDropMacro", i, "entry", 0)>>
      [] OTHER -> <<>>

\* the record of a dropped entry
DropCalls(entry, i) ==
    CASE entry.entry_type = "TABLE_ENTRY" ->
             <<Call("CommitDrop", i, "entry", 0), Call("WriteDropTable", i, "entry", 0)>>
      [] entry.entry_type = "SCHEMA_ENTRY" -> <<Call("WriteDropSchema", i, "entry", 0)>>
      [] entry.entry_type = "VIEW_ENTRY" -> <<Call("WriteDropView", i, "entry", 0)>>
      [] entry.entry_type = "SEQUENCE_ENTRY" -> <<Call("WriteDropSequence", i, "entry", 0)>>
      [] entry.entry_type = "MACRO_ENTRY" -> <<Call("WriteDropMacro", i, "entry", 0)>>
      [] OTHER -> <<>>

\* every type of entry can be dropped
DropTypesAll == CatalogType

\* the entry types a drop knows
DropTypes == {"TABLE_ENTRY", "SCHEMA_ENTRY", "VIEW_ENTRY", "SEQUENCE_ENTRY", "MACRO_ENTRY",
              "PREPARED_STATEMENT"}

\* the parent types that are not persisted
NotPersisted == {"INDEX_ENTRY", "PREPARED_STATEMENT", "AGGREGATE_FUNCTION_ENTRY",
                 "SCALAR_FUNCTION_ENTRY", "TABLE_FUNCTION_ENTRY", "COPY_FUNCTION_ENTRY",
                 "PRAGMA_FUNCTION_ENTRY", "COLLATION_ENTRY"}

\* case SCHEMA_ENTRY without the early return
SchemaCallsNoSkip(entry, i) == <<Call("WriteCreateSchema", i, "parent", 0)>>

\* case SCHEMA_ENTRY: nothing for the schema entry of an alter, else the
\* creation of the schema
SchemaCalls(entry, i) ==
    IF entry.entry_type = "SCHEMA_ENTRY"
    THEN <<>>
    ELSE <<Call("WriteCreateSchema", i, "parent", 0)>>

\* WriteCatalogEntry: the calls made for a catalog change, by the type of the
\* parent entry, and whether it throws a NotImplementedException
WriteCatalogEntry(entry, i) ==
    IF entry.temporary \/ entry.parent_temporary
    THEN [calls |-> <<>>, throws |-> FALSE]
    ELSE CASE entry.parent_type = "TABLE_ENTRY" ->
                  IF entry.entry_type = "TABLE_ENTRY"
                  THEN [calls |-> <<Call("CommitAlter", i, "entry", 0),
                                    Call("WriteAlter", i, "entry", 0)>>, throws |-> FALSE]
                  ELSE [calls |-> <<Call("WriteCreateTable", i, "parent", 0)>>, throws |-> FALSE]
           [] entry.parent_type = "SCHEMA_ENTRY" ->
                  [calls |-> SchemaCalls(entry, i), throws |-> FALSE]
           [] entry.parent_type = "VIEW_ENTRY" ->
                  IF entry.entry_type = "VIEW_ENTRY"
                  THEN [calls |-> <<Call("WriteAlter", i, "entry", 0)>>, throws |-> FALSE]
                  ELSE [calls |-> <<Call("WriteCreateView", i, "parent", 0)>>, throws |-> FALSE]
           [] entry.parent_type = "SEQUENCE_ENTRY" ->
                  [calls |-> <<Call("WriteCreateSequence", i, "parent", 0)>>, throws |-> FALSE]
           [] entry.parent_type = "MACRO_ENTRY" ->
                  [calls |-> <<Call("WriteCreateMacro", i, "parent", 0)>>, throws |-> FALSE]
           [] entry.parent_type = "DELETED_ENTRY" ->
                  [calls |-> DropCalls(entry, i), throws |-> entry.entry_type \notin DropTypes]
           [] entry.parent_type \in NotPersisted ->
                  [calls |-> <<>>, throws |-> FALSE]
           [] OTHER -> [calls |-> <<>>, throws |-> TRUE]

\* a switch whose unknown types fall into the last case
DispatchFallsThrough(type) ==
    IF type \in {"CATALOG_ENTRY", "INSERT_TUPLE", "DELETE_TUPLE", "UPDATE_TUPLE"}
    THEN type ELSE "UPDATE_TUPLE"

\* the case of the switch an undo entry of this type takes
Dispatch(type) ==
    IF type \in {"CATALOG_ENTRY", "INSERT_TUPLE", "DELETE_TUPLE", "UPDATE_TUPLE"}
    THEN type ELSE "default"

\* the test without IsTemporary
LogsRowAll(hl, info) == hl

\* whether CommitEntry writes a row entry to the log
LogsRow(hl, info) == hl /\ ~IsTemporary(info.table)

\* a row entry stamped before it is written
RowStepsStampFirst == <<"stamp", "write">>

\* CommitEntry, on a row entry: the log first, the stamp after it
RowSteps == <<"write", "stamp">>

\* CommitEntry, on a catalog entry: the timestamps first, the log after them
CatalogSteps == <<"stamp", "write">>

\* a revert that stamps the parent only
RevertStampsParentOnly(entry) == FALSE

\* a commit that stamps the entry of every catalog change
CommitStampsEntryAlways(entry) == TRUE

\* whether the entry itself is stamped besides its parent
CommitStampsEntry(entry) == entry.name # entry.parent_name

\* the same test in RevertCommit
RevertStampsEntry(entry) == entry.name # entry.parent_name

\* CatalogSet::UpdateTimestamp
UpdateTimestamp(ts, which, id) == [ts EXCEPT ![which] = id]

\* no transaction deleted the row
NOT_DELETED_ID == 3 * TRANSACTION_ID_START

\* ChunkInfo::CommitDelete on the version info of a table: the rows of the
\* chunk at base_row that the DeleteInfo names carry the id
CommitDeleteRows(vinfo, id, inf) ==
    [r \in DOMAIN vinfo |-> IF r \in DeletedRows(inf) THEN id ELSE vinfo[r]]

\* a revert that writes the deletion it takes back to the log
RevertDeleteCallsLogged(e, i, id) ==
    <<Call("WriteDelete", i, e.table, 0), Call("cardinality", i, e.table, 0),
      Call("CommitDelete", i, e.table, id)>>

\* the calls of RevertCommit on a deletion: the cardinality of the table,
\* then CommitDelete on the version info
RevertDeleteCalls(e, i, id) ==
    <<Call("cardinality", i, e.table, 0), Call("CommitDelete", i, e.table, id)>>

\* a revert that counts one row for the entry
RevertCardinalityByOne(n, inf) == n + 1

\* info->table->info->cardinality += info->count
RevertCardinality(n, inf) == n + inf.count

\* DataTable::CommitAppend and ChunkInfo::CommitDelete: mark the rows with the id
CommitAppend(v, id) == id
CommitDelete(v, id) == id

\* DataTable::RevertAppend: the rows leave the table
RevertAppend(v) == Truncated

\* a stamp one below the commit id
CommitVersionNumberOffByOne(v, id) == id - 1

\* info->version_number = commit_id
CommitVersionNumber(v, id) == id

\* info->version_number = transaction_id
RevertVersionNumber(v, id) == id

----------------------------------------------------------------------------
(* ColumnData: the data SegmentTree of a column and its TransientSegments *)

Min(a, b) == IF a <= b THEN a ELSE b

\* rows a segment holds
SegmentCapacity == SegmentVectors * STANDARD_VECTOR_SIZE

Max(a, b) == IF a >= b THEN a ELSE b

\* SegmentStatistics of no value at all: every value is below its min and
\* above its max
EmptyStatistics == [min |-> Uninitialized, max |-> 0]

\* the statistics take a value in
UpdateStatistics(stats, value) ==
    [min |-> Min(stats.min, value), max |-> Max(stats.max, value)]

\* TransientSegment(db, type, start): no rows, a new data block, statistics
\* of no value
TransientSegment(start) ==
    [start |-> start, count |-> 0, tuple_count |-> 0,
     block |-> [k \in 1..SegmentCapacity |-> Uninitialized],
     stats |-> EmptyStatistics]

\* the statistics after the rows offset+1 .. offset+n of the vector
RECURSIVE AppendStatistics(_, _, _, _)
AppendStatistics(stats, vector, offset, n) ==
    IF n = 0 THEN stats
    ELSE UpdateStatistics(AppendStatistics(stats, vector, offset, n - 1), vector[offset + n])

\* data->Append(stats, append_data, offset, count): the block takes the rows
\* of the vector from offset on that fit, after the tuple_count rows it has,
\* and the statistics take their values
BlockAppend(seg, vector, offset, count) ==
    LET appended == Min(count, SegmentCapacity - seg.tuple_count)
    IN  [appended |-> appended,
         stats |-> AppendStatistics(seg.stats, vector, offset, appended),
         tuple_count |-> seg.tuple_count + appended,
         block |-> [k \in 1..SegmentCapacity |->
                       IF seg.tuple_count < k /\ k <= seg.tuple_count + appended
                       THEN vector[offset + (k - seg.tuple_count)] ELSE seg.block[k]]]

\* TransientSegment::Append that counts the rows asked for
SegmentAppendAll(seg, vector, offset, count) ==
    LET r == BlockAppend(seg, vector, offset, count)
    IN  [segment |-> [seg EXCEPT !.count = @ + count, !.tuple_count = r.tuple_count,
                                 !.block = r.block, !.stats = r.stats],
         appended |-> r.appended]

\* TransientSegment::Append that hands no statistics to the block
SegmentAppendNoStats(seg, vector, offset, count) ==
    LET r == BlockAppend(seg, vector, offset, count)
    IN  [segment |-> [seg EXCEPT !.count = @ + r.appended,
                                 !.tuple_count = r.tuple_count, !.block = r.block],
         appended |-> r.appended]

\* TransientSegment::Append: count += appended; return appended
SegmentAppend(seg, vector, offset, count) ==
    LET r == BlockAppend(seg, vector, offset, count)
    IN  [segment |-> [seg EXCEPT !.count = @ + r.appended, !.tuple_count = r.tuple_count,
                                 !.block = r.block, !.stats = r.stats],
         appended |-> r.appended]

\* the comparison filters of a scan: a comparison with a constant
ComparisonTypes == {"COMPARE_EQUAL", "COMPARE_GREATERTHAN", "COMPARE_GREATERTHANOREQUALTO",
                    "COMPARE_LESSTHAN", "COMPARE_LESSTHANOREQUALTO"}

\* the value satisfies the filter
Satisfies(value, filter) ==
    CASE filter.comparison_type = "COMPARE_EQUAL" -> value = filter.constant
      [] filter.comparison_type = "COMPARE_GREATERTHAN" -> value > filter.constant
      [] filter.comparison_type = "COMPARE_GREATERTHANOREQUALTO" -> value >= filter.constant
      [] filter.comparison_type = "COMPARE_LESSTHAN" -> value < filter.constant
      [] filter.comparison_type = "COMPARE_LESSTHANOREQUALTO" -> value <= filter.constant

\* ColumnData::CheckZonemap on the statistics of the segment of the scan:
\* FALSE when no value between min and max satisfies the filter
CheckZonemap(stats, filter) ==
    CASE filter.comparison_type = "COMPARE_EQUAL" ->
            filter.constant >= stats.min /\ filter.constant <= stats.max
      [] filter.comparison_type = "COMPARE_GREATERTHAN" -> filter.constant < stats.max
      [] filter.comparison_type = "COMPARE_GREATERTHANOREQUALTO" -> filter.constant <= stats.max
      [] filter.comparison_type = "COMPARE_LESSTHAN" -> filter.constant > stats.min
      [] filter.comparison_type = "COMPARE_LESSTHANOREQUALTO" -> filter.constant >= stats.min

\* TransientSegment::RevertAppend that leaves the count of the segment
SegmentRevertAppendBlockOnly(seg, start_row) ==
    [seg EXCEPT !.tuple_count = start_row - seg.start]

\* TransientSegment::RevertAppend
SegmentRevertAppend(seg, start_row) ==
    [seg EXCEPT !.tuple_count = start_row - seg.start, !.count = start_row - seg.start]

\* LogicalType of the values of a segment
SegmentTypes == {"INTEGER", "BIGINT"}

\* block ids below MAXIMUM_BLOCK name blocks of the database file, the
\* others temporary buffers in memory
MAXIMUM_BLOCK == 2

\* SegmentStatistics of a block that holds the count first values of block
NumericStatistics(block, count) == [min |-> block[1], max |-> block[count]]

\* PersistentSegment: count committed rows from start on, read from the block
\* block_id of the file into the buffer buffer_id. A unique_ptr is a sequence:
\* empty when it holds nothing, else of the one object it owns
PersistentSegment(type, start, count, block_id, buffer_id) ==
    LET block == [k \in 1..SegmentCapacity |->
                    IF k <= count THEN CommittedValue(start + k - 1) ELSE Uninitialized]
    IN  [type |-> type, start |-> start, count |-> count, block_id |-> block_id,
         data |-> <<[block_id |-> buffer_id, tuple_count |-> count, block |-> block]>>,
         stats |-> <<NumericStatistics(block, count)>>,
         next |-> nullptr]

\* the persistent segments: their data still in the block of the file, or
\* already in a temporary buffer
PersistentSegments ==
    {PersistentSegment(t, s, n, b, f) :
        t \in SegmentTypes, s \in {0, SegmentCapacity}, n \in 1..SegmentCapacity,
        <<b, f>> \in {x \in (0..(MAXIMUM_BLOCK - 1)) \X (0..MAXIMUM_BLOCK) :
                         x[2] \in {x[1], MAXIMUM_BLOCK}}}

\* segment.data->ToTemporary(): the values move into a temporary buffer
ToTemporary(data) == [data EXCEPT !.block_id = MAXIMUM_BLOCK]

\* TransientSegment(PersistentSegment &segment) that copies data and stats
TransientSegmentCopies(segment) ==
    LET data == IF segment.block_id = segment.data[1].block_id
                THEN ToTemporary(segment.data[1]) ELSE segment.data[1]
    IN  [transient |-> [type |-> segment.type, start |-> segment.start,
                        count |-> segment.count, tuple_count |-> data.tuple_count,
                        block |-> data.block, block_id |-> data.block_id,
                        stats |-> segment.stats[1]],
         segment |-> [segment EXCEPT !.data = <<data>>]]

\* TransientSegment(PersistentSegment &segment): type and start of the
\* segment; its data, to a temporary buffer when it is still the block of the
\* file, and its stats are moved out of it; its count is copied. The result is
\* the new segment, data and stats in it, and what is left of the old one
TransientSegmentOf(segment) ==
    LET data == IF segment.block_id = segment.data[1].block_id
                THEN ToTemporary(segment.data[1]) ELSE segment.data[1]
    IN  [transient |-> [type |-> segment.type, start |-> segment.start,
                        count |-> segment.count, tuple_count |-> data.tuple_count,
                        block |-> data.block, block_id |-> data.block_id,
                        stats |-> segment.stats[1]],
         segment |-> [segment EXCEPT !.data = <<>>, !.stats = <<>>]]

\* rows of the column
RowCount(tree) == IF tree = <<>> THEN 0 ELSE tree[Len(tree)].start + tree[Len(tree)].count

\* ColumnData::InitializeAppend: a column without segments gets its first
InitializeAppend(tree) == IF tree = <<>> THEN <<TransientSegment(0)>> ELSE tree

\* ColumnData::Append: append to the last segment; while rows are left over,
\* append a new segment that starts where the last one ends and go on there
RECURSIVE ColumnAppend(_, _, _, _)
ColumnAppend(tree, vector, offset, count) ==
    LET r == SegmentAppend(tree[Len(tree)], vector, offset, count)
        tree1 == [tree EXCEPT ![Len(tree)] = r.segment]
    IN  IF r.appended = count
        THEN tree1
        ELSE ColumnAppend(Append(tree1, TransientSegment(r.segment.start + r.segment.count)),
                          vector, offset + r.appended, count - r.appended)

\* SegmentTree::GetSegmentIndex: the segment that holds the row, the last
\* one for the row after the last
GetSegmentIndex(tree, row) ==
    IF \E k \in DOMAIN tree : tree[k].start <= row /\ row < tree[k].start + tree[k].count
    THEN CHOOSE k \in DOMAIN tree : tree[k].start <= row /\ row < tree[k].start + tree[k].count
    ELSE Len(tree)

\* ColumnData::RevertAppend: drop the segments after the one of start_row,
\* and revert that one to start_row
ColumnRevertAppend(tree, start_row) ==
    LET segment_index == GetSegmentIndex(tree, start_row)
    IN  [k \in 1..segment_index |->
            IF k = segment_index THEN SegmentRevertAppend(tree[k], start_row) ELSE tree[k]]

\* a scan that reads the first vector of the block whatever the index
ScanVectorFirst(seg, vector_index) ==
    SubSeq(seg.block, 1, Min(STANDARD_VECTOR_SIZE, seg.tuple_count))

\* TransientSegment::Scan: data->Scan(state, vector_index, result), the rows
\* of one vector of the block
ScanVector(seg, vector_index) ==
    SubSeq(seg.block, vector_index * STANDARD_VECTOR_SIZE + 1,
           Min((vector_index + 1) * STANDARD_VECTOR_SIZE, seg.tuple_count))

\* the vectors of a segment, one after the other
RECURSIVE ScanSegment(_, _)
ScanSegment(seg, vector_index) ==
    IF vector_index * STANDARD_VECTOR_SIZE >= seg.count
    THEN <<>>
    ELSE ScanVector(seg, vector_index) \o ScanSegment(seg, vector_index + 1)

\* ColumnData::Scan from segment k on: vector by vector through the segments
RECURSIVE ColumnScan(_, _)
ColumnScan(tree, k) ==
    IF k > Len(tree) THEN <<>> ELSE ScanSegment(tree[k], 0) \o ColumnScan(tree, k + 1)

\* the calls made on the column so far
AppendCall(vector) == [op |-> "Append", vector |-> vector, start_row |-> 0]
RevertAppendCall(start_row) == [op |-> "RevertAppend", vector |-> <<>>, start_row |-> start_row]

\* rows ever appended to the column
RECURSIVE TotalAppended(_)
TotalAppended(h) ==
    IF h = <<>> THEN 0 ELSE Len(h[Len(h)].vector) + TotalAppended(SubSeq(h, 1, Len(h) - 1))

NoResult == [done |-> FALSE, rows |-> <<>>]

----------------------------------------------------------------------------
(* ColumnData: the update SegmentTree of a column *)

\* the vectors of the rows of the column
Batches == {id \div STANDARD_VECTOR_SIZE : id \in RowIds}

\* a node of the update chain of a vector. The node of this transaction is
\* the UpdateInfo of the undo entry `entry`, which has its version_number and
\* its tuples; the node of another transaction (entry = 0) has its own
Node(entry, version_number, tuples) ==
    [entry |-> entry, version_number |-> version_number, tuples |-> tuples]

\* the updates of the column column_idx of a table: per vector the chain of
\* its nodes, the most recent first, and the vectors Update was called on
ColumnUpdates(table, column_idx, chains) ==
    [table |-> table, column_idx |-> column_idx, chains |-> chains, calls |-> 0,
     affected |-> {}]

NoColumnUpdates == ColumnUpdates("A", 0, [v \in Batches |-> <<>>])

NoIndexScan ==
    [vector_index |-> 0, allow_pending_updates |-> FALSE, error |-> "none", rows |-> <<>>]

\* the chains other transactions left: nothing, a committed update, or the
\* update of a transaction that has not committed, of the last row of the vector
OtherChains ==
    {<<>>, <<Node(0, OldCommitId, <<STANDARD_VECTOR_SIZE - 1>>)>>,
     <<Node(0, other_transaction_id, <<STANDARD_VECTOR_SIZE - 1>>)>>}

\* node->version_number
NodeVersion(ver, node) == IF node.entry = 0 THEN node.version_number ELSE ver[node.entry]

\* the tuples of a node
NodeTuples(inf, node) == IF node.entry = 0 THEN node.tuples ELSE inf[node.entry].tuples

\* the chain of the vector has a node of a transaction that has not committed
HasUncommittedUpdates(ver, chains, vector_index) ==
    \E k \in DOMAIN chains[vector_index] :
        NodeVersion(ver, chains[vector_index][k]) >= TRANSACTION_ID_START

\* ColumnData::IndexScan that fails on pending updates whatever the caller allows
IndexScanIgnoresFlag(ver, chains, vector_index, allow_pending_updates) ==
    IF HasUncommittedUpdates(ver, chains, vector_index)
    THEN [vector_index |-> vector_index, allow_pending_updates |-> allow_pending_updates,
          error |-> "ConcurrentModification", rows |-> <<>>]
    ELSE [vector_index |-> vector_index, allow_pending_updates |-> allow_pending_updates,
          error |-> "none", rows |-> FetchCommitted(0, vector_index)]

\* ColumnData::IndexScan(state, result, allow_pending_updates): the committed
\* values of the vector of the state, unless the vector has pending updates
\* and the caller does not allow them
IndexScan(ver, chains, vector_index, allow_pending_updates) ==
    IF ~allow_pending_updates /\ HasUncommittedUpdates(ver, chains, vector_index)
    THEN [vector_index |-> vector_index, allow_pending_updates |-> allow_pending_updates,
          error |-> "ConcurrentModification", rows |-> <<>>]
    ELSE [vector_index |-> vector_index, allow_pending_updates |-> allow_pending_updates,
          error |-> "none", rows |-> FetchCommitted(0, vector_index)]

\* the offsets of S in ascending order
RECURSIVE AscendingSeq(_)
AscendingSeq(S) ==
    IF S = {} THEN <<>>
    ELSE LET first == CHOOSE x \in S : \A y \in S : x <= y
         IN  <<first>> \o AscendingSeq(S \ {first})

\* the offsets in the vector of the row ids that lie in it
OffsetsIn(ids, vector_index) ==
    {id % STANDARD_VECTOR_SIZE : id \in {r \in ids : r \div STANDARD_VECTOR_SIZE = vector_index}}

\* the node of the chain that has the version_number id, 0 if there is none
FindNode(ver, chain, id) ==
    IF \E k \in DOMAIN chain : NodeVersion(ver, chain[k]) = id
    THEN CHOOSE k \in DOMAIN chain : NodeVersion(ver, chain[k]) = id
    ELSE 0

\* Update on one vector that makes a new UpdateInfo at every call
UpdateVectorAlwaysCreates(st, table, column_idx, vector_index, offsets) ==
    IF offsets = {} THEN st
    ELSE [log |-> Append(st.log, RowEntry("UPDATE_TUPLE", table)),
          info |-> Append(st.info, Info(0, <<>>, 0, vector_index,
                                        AscendingSeq(offsets), column_idx)),
          ver |-> Append(st.ver, transaction_id),
          chains |-> [st.chains EXCEPT ![vector_index] =
                         <<Node(Len(st.log) + 1, 0, <<>>)>> \o @]]

\* ColumnData::Update on one vector: the UpdateInfo of the transaction in the
\* chain of the vector takes the offsets; if the chain has none, a new one
\* is made in the undo log of the transaction and put first in the chain
UpdateVector(st, table, column_idx, vector_index, offsets) ==
    LET k == FindNode(st.ver, st.chains[vector_index], transaction_id)
    IN  IF offsets = {} THEN st
        ELSE IF k # 0
        THEN LET i == st.chains[vector_index][k].entry
                 merged == {st.info[i].tuples[j] : j \in 1..st.info[i].N} \cup offsets
             IN  [st EXCEPT !.info[i] = Info(0, <<>>, 0, vector_index,
                                             AscendingSeq(merged), column_idx)]
        ELSE [log |-> Append(st.log, RowEntry("UPDATE_TUPLE", table)),
              info |-> Append(st.info, Info(0, <<>>, 0, vector_index,
                                            AscendingSeq(offsets), column_idx)),
              ver |-> Append(st.ver, transaction_id),
              chains |-> [st.chains EXCEPT ![vector_index] =
                             <<Node(Len(st.log) + 1, 0, <<>>)>> \o @]]

\* ColumnData::Update(transaction, update_vector, row_ids, count): vector by
\* vector of the rows
RECURSIVE ColumnUpdate(_, _, _, _, _)
ColumnUpdate(st, table, column_idx, ids, vector_index) ==
    IF vector_index \notin Batches THEN st
    ELSE ColumnUpdate(UpdateVector(st, table, column_idx, vector_index,
                                   OffsetsIn(ids, vector_index)),
                      table, column_idx, ids, vector_index + 1)

----------------------------------------------------------------------------
(* ColumnData: the statistics of the column and their lock *)

\* BaseStatistics: the least and the greatest value, and whether there is a
\* null
Statistics(min, max, has_null) == [min |-> min, max |-> max, has_null |-> has_null]

\* the statistics of the column before the writers merge theirs
InitialStatistics == Statistics(2, 2, FALSE)

\* the statistics a writer has of the segment it appended
WriterStatistics == {Statistics(min, max, n) : min \in {1, 2}, max \in {2, 3}, n \in BOOLEAN}

\* the writers
Writers == 1..MaxWriters

\* statistics->Merge(other): the lesser min, the greater max, a null if
\* either has one
Merge(stats, other) ==
    Statistics(Min(stats.min, other.min), Max(stats.max, other.max),
               stats.has_null \/ other.has_null)

\* a lock that every writer can take at any time
TryLockUnguarded(lock) == TRUE

\* lock_guard<mutex>(stats_lock) gets the lock when no one holds it
TryLock(lock) == lock = 0

----------------------------------------------------------------------------
(* Readers *)

NoScan == [snapshot |-> 0, tid |-> 0, rows |-> <<>>, version |-> <<>>]

\* a reader sees what carries a timestamp of its snapshot or its own id
Visible(ts, snapshot, tid) == ts <= snapshot \/ ts = tid

\* what a scan returns for the rows an undo entry is about
ScanEntry(e, v, snapshot, tid) ==
    CASE e.type = "INSERT_TUPLE" -> IF Visible(v, snapshot, tid) THEN "inserted" ELSE "absent"
      [] e.type = "DELETE_TUPLE" -> IF Visible(v, snapshot, tid) THEN "deleted" ELSE "present"
      [] e.type = "UPDATE_TUPLE" -> IF Visible(v, snapshot, tid) THEN "updated" ELSE "original"
      [] OTHER -> "none"

----------------------------------------------------------------------------
(* The state after the construction of the CommitState *)

\* the rows of the table that the transaction deleted
DeletedIn(log, inf, table) ==
    UNION {DeletedRows(inf[i]) : i \in {j \in DOMAIN log : /\ log[j].type = "DELETE_TUPLE"
                                                          /\ log[j].table = table}}

\* no row is deleted by two entries of the log
DeletedOnce(log, inf) ==
    \A i, j \in DOMAIN log :
        (i < j /\ log[i].type = "DELETE_TUPLE" /\ log[j].type = "DELETE_TUPLE"
         /\ log[i].table = log[j].table)
        => DeletedRows(inf[i]) \cap DeletedRows(inf[j]) = {}

InitTransaction(log, inf) ==
    /\ undo_log = log
    /\ undo_info = inf
    /\ delete_chunk = NoChunk
    /\ deleted = [t \in Tables |-> [r \in RowIds |->
                    IF r \in DeletedIn(log, inf, t) THEN transaction_id ELSE NOT_DELETED_ID]]
    /\ cardinality = [t \in Tables |->
                        Cardinality(RowIds) - Cardinality(DeletedIn(log, inf, t))]
    /\ has_log \in BOOLEAN
    /\ commit_id = NewCommitId
    /\ current_table_info = nullptr
    /\ trace = <<>>
    /\ version = [i \in DOMAIN undo_log |->
                    IF IsCatalog(undo_log[i]) THEN 0 ELSE transaction_id]
    /\ timestamp = [i \in DOMAIN undo_log |->
                    IF IsCatalog(undo_log[i])
                    THEN [parent |-> transaction_id, entry |-> undo_log[i].timestamp0]
                    ELSE [parent |-> 0, entry |-> 0]]
    /\ pos = 1
    /\ step = 1
    /\ end_pos = 0
    /\ error = "none"
    /\ scan = NoScan
    /\ segments = <<>>
    /\ history = <<>>
    /\ result = NoResult

\* no segment is promoted
NoPromotion == persistent = <<>> /\ transient = <<>>

\* no writer merges statistics
NoWriters == statistics = InitialStatistics /\ stats_lock = 0 /\ writers = <<>>

\* no column is updated
NoUpdates == updates = NoColumnUpdates /\ index_scan = NoIndexScan

\* no data frame is scanned
NoPandasScan ==
    /\ bind_data = [row_count |-> 0, lines_read |-> 0]
    /\ parallel_state = [position |-> 0, lock |-> 0]
    /\ scan_states = <<>>
    /\ ranges = <<>>

\* no connection is open, and no method was called
NoConnections == connections = <<>> /\ py_call = <<>> /\ executed = <<>>

\* no result is fetched, converted or streamed
NoResults == py_result = <<>> /\ conversion = <<>> /\ arrow_stream = <<>>

\* the python package is not in use
NoPython == NoPandasScan /\ NoConnections /\ NoResults

\* the storage is not in use
NoStorage ==
    /\ InitTransaction(<<>>, <<>>)
    /\ status = "committing"
    /\ has_log = FALSE
    /\ NoPromotion
    /\ NoUpdates
    /\ NoWriters

InitState(log, inf) ==
    /\ InitTransaction(log, inf)
    /\ status = "committing"
    /\ NoPromotion
    /\ NoUpdates
    /\ NoWriters
    /\ NoPython

InitOn(logs) == \E log \in logs : InitState(log, DefaultInfo(log))

\* a mixed undo log
Init == InitOn(SeqsUpTo(RowEntries \cup UnknownEntries \cup SomeCatalogEntries, MaxLog))

\* one catalog change of any kind
InitCatalog == InitOn({<<e>> : e \in AllCatalogEntries})

\* row entries on one permanent and one temporary table, under readers
InitScan == InitOn(SeqsUpTo({e \in RowEntries : e.table \in {"A", "T"}}, MaxScanLog))

\* deletions on one permanent table, with their row ids
InitDelete ==
    \E log \in SeqsUpTo({RowEntry("DELETE_TUPLE", "A")}, MaxDeleteLog) :
        \E inf \in [DOMAIN log -> DeleteInfos] :
            DeletedOnce(log, inf) /\ InitState(log, inf)

\* updates of one permanent table, with their tuples
InitUpdate ==
    \E log \in SeqsUpTo({RowEntry("UPDATE_TUPLE", "A")}, MaxUpdateLog) :
        \E inf \in [DOMAIN log -> UpdateInfos] : InitState(log, inf)

\* a persistent segment at the end of a column, and no transaction
InitPromote ==
    /\ InitTransaction(<<>>, <<>>)
    /\ status = "committing"
    /\ has_log = FALSE
    /\ persistent \in {<<s>> : s \in PersistentSegments}
    /\ transient = <<>>
    /\ NoUpdates
    /\ NoWriters
    /\ NoPython

\* a column with the updates of other transactions, and a transaction that
\* has changed nothing yet
InitUpdates ==
    /\ InitTransaction(<<>>, <<>>)
    /\ status = "running"
    /\ NoPromotion
    /\ \E table \in {"A", "T"}, chains \in [Batches -> OtherChains] :
        updates = ColumnUpdates(table, 0, chains)
    /\ index_scan = NoIndexScan
    /\ NoWriters
    /\ NoPython

\* the column of a permanent table, without a log
InitIndexScan == InitUpdates /\ has_log = FALSE /\ updates.table = "A"

\* writers about to merge the statistics of their segments into the
\* statistics of the column
InitStatistics ==
    /\ InitTransaction(<<>>, <<>>)
    /\ status = "committing"
    /\ has_log = FALSE
    /\ NoPromotion
    /\ NoUpdates
    /\ NoPython
    /\ statistics = InitialStatistics
    /\ stats_lock = 0
    /\ writers \in [Writers -> {[pc |-> "start", other |-> o, local |-> InitialStatistics] :
                                  o \in WriterStatistics}]

\* a new column, and no transaction that commits
InitColumn == InitState(<<>>, <<>>) /\ has_log = FALSE

----------------------------------------------------------------------------
(* The commit traversal: CommitEntry on the entry at pos *)

Entry == undo_log[pos]

CurrentStep == IF IsCatalog(Entry) THEN CatalogSteps[step] ELSE RowSteps[step]

Committing(type, what) ==
    /\ status = "committing"
    /\ Dispatch(Entry.type) = type
    /\ CurrentStep = what

\* the step of the entry is done: on to its next step, or to the next entry
Advance ==
    /\ step' = IF step = 2 THEN 1 ELSE 2
    /\ pos' = IF step = 2 THEN pos + 1 ELSE pos
    /\ status' = IF step = 2 /\ pos = Len(undo_log) THEN "committed" ELSE "committing"
    /\ error' = error

\* an exception leaves CommitEntry and ends the traversal
Throw(what) ==
    /\ status' = "failed"
    /\ error' = what
    /\ UNCHANGED <<pos, step>>

\* the log calls of r, any of which may fail: the calls before it were made
FailPoints(calls) == {0} \cup {k \in 1..Len(calls) : IsLogCall(calls[k])}

\* the calls of r are made up to the one that fails, if one does (f # 0)
EmitAt(r, f) ==
    /\ trace' = trace \o (IF f = 0 THEN r.calls ELSE SubSeq(r.calls, 1, f - 1))
    /\ current_table_info' = IF f # 0 /\ IsMarker(r.calls[f])
                             THEN current_table_info ELSE r.current
    /\ IF f = 0 THEN Advance ELSE Throw("IOException")

Emit(r) == \E f \in FailPoints(r.calls) : EmitAt(r, f)

NoCalls == [calls |-> <<>>, current |-> current_table_info]

CommitCatalogStamp ==
    /\ Committing("CATALOG_ENTRY", "stamp")
    /\ LET both == CommitStampsEntry(Entry)
           ts1 == UpdateTimestamp(timestamp[pos], "parent", commit_id)
           ts2 == IF both THEN UpdateTimestamp(ts1, "entry", commit_id) ELSE ts1
       IN  /\ timestamp' = [timestamp EXCEPT ![pos] = ts2]
           /\ trace' = trace \o <<Call("UpdateTimestamp", pos, "parent", commit_id)>>
                             \o (IF both THEN <<Call("UpdateTimestamp", pos, "entry", commit_id)>>
                                 ELSE <<>>)
    /\ Advance
    /\ UNCHANGED <<undo_log, undo_info, has_log, commit_id, current_table_info, version, end_pos, scan,
                   delete_chunk, deleted, cardinality>>
    /\ UNCHANGED not_commit_vars

CommitCatalogWrite ==
    /\ Committing("CATALOG_ENTRY", "write")
    /\ LET r == WriteCatalogEntry(Entry, pos)
       IN  IF has_log /\ r.throws
           THEN /\ Throw("NotImplementedException")
                /\ UNCHANGED <<trace, current_table_info>>
           ELSE Emit(IF has_log THEN [calls |-> r.calls, current |-> current_table_info]
                     ELSE NoCalls)
    /\ UNCHANGED <<undo_log, undo_info, has_log, commit_id, version, timestamp, end_pos, scan,
                   delete_chunk, deleted, cardinality>>
    /\ UNCHANGED not_commit_vars

CommitInsertWrite ==
    /\ Committing("INSERT_TUPLE", "write")
    /\ Emit(IF LogsRow(has_log, Entry) THEN WriteToLog(current_table_info, Entry, pos)
            ELSE NoCalls)
    /\ UNCHANGED <<undo_log, undo_info, has_log, commit_id, version, timestamp, end_pos, scan,
                   delete_chunk, deleted, cardinality>>
    /\ UNCHANGED not_commit_vars

CommitInsertStamp ==
    /\ Committing("INSERT_TUPLE", "stamp")
    /\ version' = [version EXCEPT ![pos] = CommitAppend(@, commit_id)]
    /\ trace' = Append(trace, Call("CommitAppend", pos, Entry.table, commit_id))
    /\ Advance
    /\ UNCHANGED <<undo_log, undo_info, has_log, commit_id, current_table_info, timestamp, end_pos, scan,
                   delete_chunk, deleted, cardinality>>
    /\ UNCHANGED not_commit_vars

CommitDeleteWrite ==
    /\ Committing("DELETE_TUPLE", "write")
    /\ IF LogsRow(has_log, Entry)
       THEN LET r == WriteDelete(current_table_info, delete_chunk, Entry, undo_info[pos], pos)
            IN  \E f \in FailPoints(r.calls) :
                    /\ EmitAt(r, f)
                    \* a marker that fails leaves WriteDelete before the chunk is filled
                    /\ delete_chunk' = IF f # 0 /\ IsMarker(r.calls[f])
                                       THEN delete_chunk ELSE r.chunk
       ELSE Emit(NoCalls) /\ UNCHANGED delete_chunk
    /\ UNCHANGED <<undo_log, undo_info, has_log, commit_id, version, timestamp, end_pos, scan,
                   deleted, cardinality>>
    /\ UNCHANGED not_commit_vars

CommitDeleteStamp ==
    /\ Committing("DELETE_TUPLE", "stamp")
    /\ version' = [version EXCEPT ![pos] = CommitDelete(@, commit_id)]
    /\ deleted' = [deleted EXCEPT ![Entry.table] = CommitDeleteRows(@, commit_id, undo_info[pos])]
    /\ trace' = Append(trace, Call("CommitDelete", pos, Entry.table, commit_id))
    /\ Advance
    /\ UNCHANGED <<undo_log, undo_info, has_log, commit_id, current_table_info, timestamp, end_pos, scan,
                   delete_chunk, cardinality>>
    /\ UNCHANGED not_commit_vars

CommitUpdateWrite ==
    /\ Committing("UPDATE_TUPLE", "write")
    /\ Emit(IF LogsRow(has_log, Entry) THEN WriteUpdate(current_table_info, Entry, undo_info[pos], pos)
            ELSE NoCalls)
    /\ UNCHANGED <<undo_log, undo_info, has_log, commit_id, version, timestamp, end_pos, scan,
                   delete_chunk, deleted, cardinality>>
    /\ UNCHANGED not_commit_vars

CommitUpdateStamp ==
    /\ Committing("UPDATE_TUPLE", "stamp")
    /\ version' = [version EXCEPT ![pos] = CommitVersionNumber(@, commit_id)]
    /\ trace' = Append(trace, Call("version_number", pos, Entry.table, commit_id))
    /\ Advance
    /\ UNCHANGED <<undo_log, undo_info, has_log, commit_id, current_table_info, timestamp, end_pos, scan,
                   delete_chunk, deleted, cardinality>>
    /\ UNCHANGED not_commit_vars

\* an entry of a type the switch does not know
CommitDefault ==
    /\ status = "committing"
    /\ Dispatch(Entry.type) = "default"
    /\ Throw("NotImplementedException")
    /\ UNCHANGED <<undo_log, undo_info, has_log, commit_id, current_table_info, trace, version,
                   timestamp, end_pos, scan,
                   delete_chunk, deleted, cardinality>>
    /\ UNCHANGED not_commit_vars

----------------------------------------------------------------------------
(* The revert traversal: a CommitState of the transaction id, without a log, *)
(* calls RevertCommit on the entries up to the one the commit ended at       *)

BeginRevert ==
    /\ status \in {"failed", "committed"}
    /\ status' = "reverting"
    /\ commit_id' = transaction_id
    /\ current_table_info' = nullptr
    /\ end_pos' = IF status = "failed" THEN pos ELSE Len(undo_log)
    /\ pos' = 1
    /\ step' = 1
    /\ error' = "none"
    /\ UNCHANGED <<undo_log, undo_info, has_log, trace, version, timestamp, scan,
                   delete_chunk, deleted, cardinality>>
    /\ UNCHANGED not_commit_vars

Reverting(type) ==
    /\ status = "reverting"
    /\ Dispatch(Entry.type) = type

Reverted ==
    /\ pos' = pos + 1
    /\ status' = IF pos = end_pos THEN "reverted" ELSE "reverting"
    /\ UNCHANGED <<step, error>>

RevertCatalog ==
    /\ Reverting("CATALOG_ENTRY")
    /\ LET both == RevertStampsEntry(Entry)
           ts1 == UpdateTimestamp(timestamp[pos], "parent", commit_id)
           ts2 == IF both THEN UpdateTimestamp(ts1, "entry", commit_id) ELSE ts1
       IN  /\ timestamp' = [timestamp EXCEPT ![pos] = ts2]
           /\ trace' = trace \o <<Call("UpdateTimestamp", pos, "parent", commit_id)>>
                             \o (IF both THEN <<Call("UpdateTimestamp", pos, "entry", commit_id)>>
                                 ELSE <<>>)
    /\ Reverted
    /\ UNCHANGED <<undo_log, undo_info, has_log, commit_id, current_table_info, version, end_pos, scan,
                   delete_chunk, deleted, cardinality>>
    /\ UNCHANGED not_commit_vars

RevertInsert ==
    /\ Reverting("INSERT_TUPLE")
    /\ version' = [version EXCEPT ![pos] = RevertAppend(@)]
    /\ trace' = Append(trace, Call("RevertAppend", pos, Entry.table, 0))
    /\ Reverted
    /\ UNCHANGED <<undo_log, undo_info, has_log, commit_id, current_table_info, timestamp, end_pos, scan,
                   delete_chunk, deleted, cardinality>>
    /\ UNCHANGED not_commit_vars

RevertDelete ==
    /\ Reverting("DELETE_TUPLE")
    /\ cardinality' = [cardinality EXCEPT ![Entry.table] = RevertCardinality(@, undo_info[pos])]
    /\ version' = [version EXCEPT ![pos] = CommitDelete(@, commit_id)]
    /\ deleted' = [deleted EXCEPT ![Entry.table] = CommitDeleteRows(@, commit_id, undo_info[pos])]
    /\ trace' = trace \o RevertDeleteCalls(Entry, pos, commit_id)
    /\ Reverted
    /\ UNCHANGED <<undo_log, undo_info, has_log, commit_id, current_table_info, timestamp, end_pos, scan,
                   delete_chunk>>
    /\ UNCHANGED not_commit_vars

RevertUpdate ==
    /\ Reverting("UPDATE_TUPLE")
    /\ version' = [version EXCEPT ![pos] = RevertVersionNumber(@, commit_id)]
    /\ trace' = Append(trace, Call("version_number", pos, Entry.table, commit_id))
    /\ Reverted
    /\ UNCHANGED <<undo_log, undo_info, has_log, commit_id, current_table_info, timestamp, end_pos, scan,
                   delete_chunk, deleted, cardinality>>
    /\ UNCHANGED not_commit_vars

RevertDefault ==
    /\ Reverting("default")
    /\ status' = "revert_failed"
    /\ error' = "NotImplementedException"
    /\ UNCHANGED <<undo_log, undo_info, has_log, commit_id, current_table_info, trace, version,
                   timestamp, pos, step, end_pos, scan,
                   delete_chunk, deleted, cardinality>>
    /\ UNCHANGED not_commit_vars

----------------------------------------------------------------------------
(* A reader scans the rows of the transaction's entries *)

Scan ==
    /\ status \in {"committing", "committed", "failed", "reverting", "reverted"}
    /\ \E snapshot \in 1..MaxSnapshot, tid \in {transaction_id, other_transaction_id} :
          \* the transaction itself reads before its commit starts
          /\ tid = transaction_id =>
                 status = "committing" /\ pos = 1 /\ step = 1 /\ snapshot < NewCommitId
          /\ scan' = [snapshot |-> snapshot, tid |-> tid,
                      rows |-> [i \in DOMAIN undo_log |->
                                  ScanEntry(undo_log[i], version[i], snapshot, tid)],
                      version |-> version]
    /\ UNCHANGED <<undo_log, undo_info, has_log, commit_id, current_table_info, trace, version,
                   timestamp, pos, step, end_pos, status, error,
                   delete_chunk, deleted, cardinality>>
    /\ UNCHANGED not_commit_vars

----------------------------------------------------------------------------
(* The column: appends, reverted appends and scans by its one writer *)

\* InitializeAppend and Append of a vector of 1..STANDARD_VECTOR_SIZE rows;
\* the values are numbered in the order they are appended
ColumnDataAppend ==
    /\ Len(history) < MaxColumnOps
    /\ \E count \in 1..STANDARD_VECTOR_SIZE :
          LET vector == [j \in 1..count |-> TotalAppended(history) + j]
          IN  /\ segments' = ColumnAppend(InitializeAppend(segments), vector, 0, count)
              /\ history' = Append(history, AppendCall(vector))
    /\ result' = NoResult
    /\ UNCHANGED not_column_vars

\* RevertAppend to a row of the column, or to the row after its last
ColumnDataRevertAppend ==
    /\ Len(history) < MaxColumnOps
    /\ segments # <<>>
    /\ \E start_row \in 0..RowCount(segments) :
          /\ segments' = ColumnRevertAppend(segments, start_row)
          /\ history' = Append(history, RevertAppendCall(start_row))
    /\ result' = NoResult
    /\ UNCHANGED not_column_vars

\* InitializeScan and Scan until the column ends
ColumnDataScan ==
    /\ ~result.done
    /\ result' = [done |-> TRUE, rows |-> ColumnScan(segments, 1)]
    /\ UNCHANGED <<segments, history>>
    /\ UNCHANGED not_column_vars

\* TransientSegment(PersistentSegment &segment), on a segment that is the
\* last of its tree (D_ASSERT(!segment.next))
PromoteSegment ==
    /\ persistent # <<>>
    /\ transient = <<>>
    /\ persistent[1].next = nullptr
    /\ LET r == TransientSegmentOf(persistent[1])
       IN  /\ transient' = <<r.transient>>
           /\ persistent' = <<r.segment>>
    /\ UNCHANGED not_promote_vars

\* TransientSegment::Append on the promoted segment: new values of the rows
\* after its last
PromotedAppend ==
    /\ transient # <<>>
    /\ transient[1].tuple_count < SegmentCapacity
    /\ \E count \in 1..STANDARD_VECTOR_SIZE :
        LET seg == transient[1]
            vector == [j \in 1..count |->
                          CommittedValue(seg.start + seg.tuple_count + j - 1) + 1]
        IN  transient' = <<SegmentAppend(seg, vector, 0, count).segment>>
    /\ UNCHANGED persistent
    /\ UNCHANGED not_promote_vars

\* TransientSegment::RevertAppend on the promoted segment
PromotedRevertAppend ==
    /\ transient # <<>>
    /\ \E start_row \in transient[1].start..(transient[1].start + transient[1].count) :
        transient' = <<SegmentRevertAppend(transient[1], start_row)>>
    /\ UNCHANGED persistent
    /\ UNCHANGED not_promote_vars

NextPromote ==
    \/ PromoteSegment
    \/ PromotedAppend
    \/ PromotedRevertAppend

\* ColumnData::Update of up to MaxCount rows in a row of the column by the
\* transaction, before it commits. No row has an update of a transaction that
\* has not committed (the conflict check of the transaction layer)
ColumnDataUpdate ==
    /\ status = "running"
    /\ updates.calls < MaxUpdateCalls
    /\ \E ids \in {first..(first + count - 1) : first \in RowIds, count \in 1..MaxCount} :
        /\ ids \subseteq RowIds
        /\ \A id \in ids :
              LET chain == updates.chains[id \div STANDARD_VECTOR_SIZE]
              IN  \A k \in DOMAIN chain :
                      (chain[k].entry = 0 /\ chain[k].version_number >= TRANSACTION_ID_START)
                      => \A j \in DOMAIN chain[k].tuples :
                             chain[k].tuples[j] # id % STANDARD_VECTOR_SIZE
        /\ LET st == ColumnUpdate([log |-> undo_log, info |-> undo_info, ver |-> version,
                                   chains |-> updates.chains],
                                  updates.table, updates.column_idx, ids, 0)
           IN  /\ undo_log' = st.log
               /\ undo_info' = st.info
               /\ version' = st.ver
               /\ timestamp' = [i \in DOMAIN st.log |-> [parent |-> 0, entry |-> 0]]
               /\ updates' = [updates EXCEPT
                                 !.chains = st.chains, !.calls = @ + 1,
                                 !.affected = @ \cup {id \div STANDARD_VECTOR_SIZE : id \in ids}]
    /\ UNCHANGED <<has_log, commit_id, current_table_info, delete_chunk, trace, deleted,
                   cardinality, pos, step, end_pos, status, error, scan>>
    /\ UNCHANGED <<column_vars, promote_vars, index_scan, stats_vars, python_vars>>

\* the transaction commits: the traversal of its undo log starts
BeginCommit ==
    /\ status = "running"
    /\ undo_log # <<>>
    /\ status' = "committing"
    /\ UNCHANGED <<undo_log, undo_info, has_log, commit_id, current_table_info, delete_chunk,
                   trace, version, deleted, cardinality, timestamp, pos, step, end_pos,
                   error, scan>>
    /\ UNCHANGED not_commit_vars

\* ColumnData::IndexScan of a vector of the column
ColumnDataIndexScan ==
    /\ \E vector_index \in Batches, allow_pending_updates \in BOOLEAN :
        index_scan' = IndexScan(version, updates.chains, vector_index, allow_pending_updates)
    /\ UNCHANGED <<commit_vars, column_vars, promote_vars, updates, stats_vars, python_vars>>

NextUpdates ==
    \/ ColumnDataUpdate
    \/ BeginCommit
    \/ CommitUpdateWrite
    \/ CommitUpdateStamp
    \/ BeginRevert
    \/ RevertUpdate

NextIndexScan ==
    \/ ColumnDataUpdate
    \/ BeginCommit
    \/ CommitUpdateWrite
    \/ CommitUpdateStamp
    \/ ColumnDataIndexScan

\* MergeStatistics of writer w: lock_guard<mutex> slock(stats_lock)
MergeLock(w) ==
    /\ writers[w].pc = "start"
    /\ TryLock(stats_lock)
    /\ stats_lock' = w
    /\ writers' = [writers EXCEPT ![w].pc = "locked"]
    /\ UNCHANGED statistics
    /\ UNCHANGED not_stats_vars

\* statistics->Merge(other) reads the statistics of the column
MergeRead(w) ==
    /\ writers[w].pc = "locked"
    /\ writers' = [writers EXCEPT ![w].pc = "read", ![w].local = statistics]
    /\ UNCHANGED <<statistics, stats_lock>>
    /\ UNCHANGED not_stats_vars

\* statistics->Merge(other) writes the merged statistics
MergeWrite(w) ==
    /\ writers[w].pc = "read"
    /\ statistics' = Merge(writers[w].local, writers[w].other)
    /\ writers' = [writers EXCEPT ![w].pc = "written"]
    /\ UNCHANGED stats_lock
    /\ UNCHANGED not_stats_vars

\* the lock_guard goes out of scope
MergeUnlock(w) ==
    /\ writers[w].pc = "written"
    /\ stats_lock' = IF stats_lock = w THEN 0 ELSE stats_lock
    /\ writers' = [writers EXCEPT ![w].pc = "done"]
    /\ UNCHANGED statistics
    /\ UNCHANGED not_stats_vars

NextStatistics ==
    \E w \in Writers :
        \/ MergeLock(w)
        \/ MergeRead(w)
        \/ MergeWrite(w)
        \/ MergeUnlock(w)

NextColumn ==
    \/ ColumnDataAppend
    \/ ColumnDataRevertAppend
    \/ ColumnDataScan

----------------------------------------------------------------------------
(* Specifications *)

NextCatalog ==
    \/ CommitCatalogStamp
    \/ CommitCatalogWrite
    \/ BeginRevert
    \/ RevertCatalog

NextRows ==
    \/ CommitInsertWrite
    \/ CommitInsertStamp
    \/ CommitDeleteWrite
    \/ CommitDeleteStamp
    \/ CommitUpdateWrite
    \/ CommitUpdateStamp
    \/ BeginRevert
    \/ RevertInsert
    \/ RevertDelete
    \/ RevertUpdate

Next ==
    \/ CommitCatalogStamp
    \/ CommitCatalogWrite
    \/ CommitInsertWrite
    \/ CommitInsertStamp
    \/ CommitDeleteWrite
    \/ CommitDeleteStamp
    \/ CommitUpdateWrite
    \/ CommitUpdateStamp
    \/ CommitDefault
    \/ BeginRevert
    \/ RevertCatalog
    \/ RevertInsert
    \/ RevertDelete
    \/ RevertUpdate
    \/ RevertDefault

NextScan == NextRows \/ Scan

NextDelete ==
    \/ CommitDeleteWrite
    \/ CommitDeleteStamp
    \/ BeginRevert
    \/ RevertDelete

NextUpdate ==
    \/ CommitUpdateWrite
    \/ CommitUpdateStamp
    \/ BeginRevert
    \/ RevertUpdate

\* the commit of a mixed undo log
Spec == Init /\ [][Next]_vars

\* the commit and the revert of one catalog change
SpecCatalog == InitCatalog /\ [][NextCatalog]_vars

\* the commit of row entries under concurrent readers
SpecScan == InitScan /\ [][NextScan]_vars

\* the commit and the revert of deletions, with the rows they name
SpecDelete == InitDelete /\ [][NextDelete]_vars

\* the commit and the revert of updates, with the tuples they name
SpecUpdate == InitUpdate /\ [][NextUpdate]_vars

\* the appends, reverted appends and scans of a new column
SpecColumn == InitColumn /\ [][NextColumn]_vars

\* the promotion of a persistent segment, and appends to the promoted segment
SpecPromote == InitPromote /\ [][NextPromote]_vars

\* the updates of a column by a transaction and its commit
SpecUpdates == InitUpdates /\ [][NextUpdates]_vars

\* IndexScan of a column that a transaction updates and commits
SpecIndexScan == InitIndexScan /\ [][NextIndexScan]_vars

\* MergeStatistics of several writers at the same time
SpecStatistics == InitStatistics /\ [][NextStatistics]_vars

----------------------------------------------------------------------------
(* The parallel scan of a data frame *)

\* the threads that scan one data frame
ScanThreads == 1..MaxScanThreads

\* the rows of one partition of the data frame
PANDAS_PARTITION_COUNT == PartitionVectors * STANDARD_VECTOR_SIZE

\* the row counts of the data frames that are scanned: none, less than a
\* partition, whole partitions, and partitions followed by a shorter one
RowCounts == 0..(MaxPartitions * PANDAS_PARTITION_COUNT + 1)

\* PandasScanState(start, end) of a thread, the statement the thread is at,
\* and what its last call of PandasScanParallelStateNext returned
PandasScanState(start, end) ==
    [start |-> start, end |-> end, pc |-> "init", returned |-> "none"]

\* lock_guard<mutex>: the constructor returns once no thread holds the lock
LockGuardAbsent(lock) == TRUE

LockGuard(lock) == lock = 0

\* the end of the scope of the lock_guard of thread t
Unlock(lock, t) == IF lock = t THEN 0 ELSE lock

\* a data frame of any size, and threads that have not started
InitPandasScan ==
    /\ NoStorage
    /\ NoConnections
    /\ NoResults
    /\ \E row_count \in RowCounts : bind_data = [row_count |-> row_count, lines_read |-> 0]
    /\ parallel_state = [position |-> 0, lock |-> 0]
    /\ scan_states = [t \in ScanThreads |-> PandasScanState(0, 0)]
    /\ ranges = <<>>

\* PandasScanParallelInit and PandasScanParallelStateNext: the thread takes
\* the lock of the parallel state
ParallelStateNextLock(t) ==
    /\ scan_states[t].pc \in {"init", "idle"}
    /\ LockGuard(parallel_state.lock)
    /\ parallel_state' = [parallel_state EXCEPT !.lock = t]
    /\ scan_states' = [scan_states EXCEPT ![t].pc =
                          IF scan_states[t].pc = "init" THEN "init_check" ELSE "check"]
    /\ UNCHANGED <<bind_data, ranges, not_pandas_vars>>

\* if (parallel_state.position >= bind_data.row_count) return false;
\* PandasScanParallelInit returns nullptr then, and the thread scans nothing
ParallelStateNextCheck(t) ==
    /\ scan_states[t].pc \in {"init_check", "check"}
    /\ IF parallel_state.position >= bind_data.row_count
       THEN /\ scan_states' = [scan_states EXCEPT
                                  ![t].pc = IF scan_states[t].pc = "init_check"
                                            THEN "done" ELSE "idle",
                                  ![t].returned = "false"]
            /\ parallel_state' = [parallel_state EXCEPT !.lock = Unlock(@, t)]
       ELSE /\ scan_states' = [scan_states EXCEPT ![t].pc = "start"]
            /\ UNCHANGED parallel_state
    /\ UNCHANGED <<bind_data, ranges, not_pandas_vars>>

\* state.start = parallel_state.position;
ParallelStateNextStart(t) ==
    /\ scan_states[t].pc = "start"
    /\ scan_states' = [scan_states EXCEPT ![t].start = parallel_state.position,
                                          ![t].pc = "add"]
    /\ UNCHANGED <<bind_data, parallel_state, ranges, not_pandas_vars>>

\* parallel_state.position += PANDAS_PARTITION_COUNT;
ParallelStateNextAdd(t) ==
    /\ scan_states[t].pc = "add"
    /\ parallel_state' = [parallel_state EXCEPT !.position = @ + PANDAS_PARTITION_COUNT]
    /\ scan_states' = [scan_states EXCEPT ![t].pc = "clamp"]
    /\ UNCHANGED <<bind_data, ranges, not_pandas_vars>>

\* if (parallel_state.position > bind_data.row_count)
\*     parallel_state.position = bind_data.row_count;
ParallelStateNextClamp(t) ==
    /\ scan_states[t].pc = "clamp"
    /\ parallel_state' = [parallel_state EXCEPT !.position =
                             IF @ > bind_data.row_count THEN bind_data.row_count ELSE @]
    /\ scan_states' = [scan_states EXCEPT ![t].pc = "end"]
    /\ UNCHANGED <<bind_data, ranges, not_pandas_vars>>

\* state.end = parallel_state.position; return true;
ParallelStateNextEnd(t) ==
    /\ scan_states[t].pc = "end"
    /\ scan_states' = [scan_states EXCEPT ![t].end = parallel_state.position,
                                          ![t].pc = "idle",
                                          ![t].returned = "true"]
    /\ parallel_state' = [parallel_state EXCEPT !.lock = Unlock(@, t)]
    /\ ranges' = Append(ranges, [start |-> scan_states[t].start,
                                 end |-> parallel_state.position,
                                 thread |-> t])
    /\ UNCHANGED <<bind_data, not_pandas_vars>>

\* PandasScanFunc: the thread scans the next vector of its range
PandasScanFunc(t) ==
    /\ scan_states[t].pc = "idle"
    /\ scan_states[t].start < scan_states[t].end
    /\ LET this_count == Min(STANDARD_VECTOR_SIZE, scan_states[t].end - scan_states[t].start)
       IN  /\ scan_states' = [scan_states EXCEPT ![t].start = @ + this_count]
           /\ bind_data' = [bind_data EXCEPT !.lines_read = @ + this_count]
    /\ UNCHANGED <<parallel_state, ranges, not_pandas_vars>>

NextPandasScan ==
    \E t \in ScanThreads :
        \/ ParallelStateNextLock(t)
        \/ ParallelStateNextCheck(t)
        \/ ParallelStateNextStart(t)
        \/ ParallelStateNextAdd(t)
        \/ ParallelStateNextClamp(t)
        \/ ParallelStateNextEnd(t)
        \/ PandasScanFunc(t)

\* threads that scan one data frame in parallel
SpecPandasScan == InitPandasScan /\ [][NextPandasScan]_vars

----------------------------------------------------------------------------
(* DuckDBPyConnection: the connections and cursors of one database *)

\* the connection returned by Connect and the cursors made from it
ConnectionIds == 1..MaxConnections

\* what the engine does with one statement that ExtractStatements has
\* parsed: it runs, it fails to bind, it needs parameters that were not
\* passed, or it fails when it is executed
Statements == {"ok", "invalid", "params", "runtime"}

\* statements whose text the package writes itself: they parse and need no
\* parameters
OwnStatements == {"ok", "runtime"}

\* the query strings passed to Execute, as what ExtractStatements returns
Queries == {<<>>} \cup SeqsUpTo(Statements, MaxStatements)

\* the query strings of one statement without parameters
ShortQueries == {<<statement>> : statement \in OwnStatements}

\* a DuckDBPyResult of the last statement of a query string, and the null
\* unique_ptr<DuckDBPyResult>
OpenResult(statement) == [statement |-> statement]

NullResult == OpenResult(0)

\* std::runtime_error(message), with the statement the message is about
PyError(message, statement) == [message |-> message, statement |-> statement]

NoPyError == PyError("none", 0)

ConnectionClosed == PyError("connection closed", 0)

NoOpenResultSet == PyError("no open result set", 0)

\* the process has died of a null dereference
Segfault == PyError("segfault", 0)

\* the members of a DuckDBPyConnection that Connect or Cursor returns;
\* registered_dfs only keeps the data frames alive and no method reads it:
\* it is not part of the state
DuckDBPyConnection ==
    [database |-> TRUE, connection |-> TRUE, result |-> NullResult, cursors |-> <<>>]

\* what Execute and the methods that call it return: the connection, what
\* was raised, the statements run with Query, the statement prepared, and
\* the statements of the last Execute with how it ended
Executed(conn, raised, ran, prepared) ==
    [conn |-> conn, error |-> raised, ran |-> ran, prepared |-> prepared,
     statements |-> <<>>, executed |-> "none"]

\* what a method that does not call Execute returns
Raised(conn, raised) == Executed(conn, raised, <<>>, 0)

\* a call of a method of connection c: what it returned, whether c was
\* closed when it was called, and whether it dereferenced a null connection
\* or database
PyCall(op, c, done, undefined) ==
    [op |-> op, conn |-> c, error |-> done.error, ran |-> done.ran,
     prepared |-> done.prepared, statements |-> done.statements,
     executed |-> done.executed,
     closed |-> ~connections[c].connection, undefined |-> undefined]

NoPyCall ==
    [op |-> "connect", conn |-> 1, error |-> NoPyError, ran |-> <<>>, prepared |-> 0,
     statements |-> <<>>, executed |-> "none", closed |-> FALSE, undefined |-> FALSE]

\* for (idx_t i = 0; i + 1 < statements.size(); i++): Query of every
\* statement but the last, until one fails
QueryStatementsAll(statements, i) ==
    [ran |-> [j \in 1..(Len(statements) - i) |-> i + j - 1],
     error |-> IF \E j \in i..(Len(statements) - 1) : statements[j] # "ok"
               THEN PyError("query", CHOOSE j \in i..(Len(statements) - 1) :
                                        statements[j] # "ok")
               ELSE NoPyError]

RECURSIVE QueryStatements(_, _)
QueryStatements(statements, i) ==
    IF i >= Len(statements)
    THEN [ran |-> <<>>, error |-> NoPyError]
    ELSE IF statements[i] # "ok"
         THEN [ran |-> <<i>>, error |-> PyError("query", i)]
         ELSE LET rest == QueryStatements(statements, i + 1)
              IN  [ran |-> <<i>> \o rest.ran, error |-> rest.error]

\* result = NullResult;
KeepResult(conn) == conn

DiscardResult(conn) == [conn EXCEPT !.result = NullResult]

\* DuckDBPyConnection::Execute(query, params, many) with `sets` parameter
\* sets when many is true
ExecuteStatements(conn, statements, many, sets) ==
    IF ~conn.connection
    THEN Executed(conn, ConnectionClosed, <<>>, 0)
    ELSE LET discarded == DiscardResult(conn)
             last == Len(statements)
         IN  IF statements = <<>>
             THEN Executed(discarded, NoPyError, <<>>, 0)
             ELSE LET queried == QueryStatements(statements, 1)
                  IN  IF queried.error # NoPyError
                      THEN Executed(discarded, queried.error, queried.ran, 0)
                      ELSE IF statements[last] = "invalid"
                      THEN Executed(discarded, PyError("prepare", last), queried.ran, last)
                      ELSE IF (IF many THEN sets ELSE 1) = 0
                      THEN Executed(discarded, NoPyError, queried.ran, last)
                      ELSE IF statements[last] = "params"
                      THEN Executed(discarded, PyError("parameters", last), queried.ran, last)
                      ELSE IF statements[last] = "runtime"
                      THEN Executed(discarded, PyError("execute", last), queried.ran, last)
                      ELSE IF many
                      THEN Executed(discarded, NoPyError, queried.ran, last)
                      ELSE Executed([discarded EXCEPT !.result = OpenResult(last)],
                                    NoPyError, queried.ran, last)

\* Execute, and how it ended: it raised, it found no statement, it ran the
\* parameter sets of ExecuteMany, or it ran one parameter set
Execute(conn, statements, many, sets) ==
    LET done == ExecuteStatements(conn, statements, many, sets)
    IN  [done EXCEPT !.statements = statements, !.executed =
            IF done.error # NoPyError THEN "raised"
            ELSE IF statements = <<>> THEN "empty"
            ELSE IF many THEN "many"
            ELSE "ok"]

\* DuckDBPyConnection::RegisterDF: a view on the data frame, and a query
\* that binds it
RegisterDF(conn, view, bind) ==
    LET created == Execute(conn, <<view>>, FALSE, 1)
    IN  IF created.error # NoPyError THEN created
        ELSE Execute(created.conn, <<bind>>, FALSE, 1)

\* DuckDBPyConnection::Close of connection c and of its cursors
RECURSIVE CloseConnection(_, _)
RECURSIVE CloseCursors(_, _, _)

CloseNoCursors(conns, cursors, i) == conns

CloseCursors(conns, cursors, i) ==
    IF i > Len(cursors) THEN conns
    ELSE CloseCursors(CloseConnection(conns, cursors[i]), cursors, i + 1)

CloseConnection(conns, c) ==
    LET released == [conns EXCEPT ![c].result = NullResult,
                                  ![c].connection = FALSE,
                                  ![c].database = FALSE]
        closed == CloseCursors(released, released[c].cursors, 1)
    IN  [closed EXCEPT ![c].cursors = <<>>]

\* the methods that return a relation on the connection
RelationOperations ==
    {"table", "view", "values", "table_function", "from_df", "from_csv_auto",
     "from_parquet", "from_arrow_table"}

\* the process runs
Running == py_call.error # Segfault

\* Connect: one connection to a new database
InitConnection ==
    /\ NoStorage
    /\ NoPandasScan
    /\ NoResults
    /\ connections = <<DuckDBPyConnection>>
    /\ py_call = NoPyCall
    /\ executed = [c \in ConnectionIds |-> "never"]

\* a method that calls Execute and returns
Returns(op, c, done) ==
    /\ connections' = [connections EXCEPT ![c] = done.conn]
    /\ py_call' = PyCall(op, c, done, FALSE)

\* execute(query, parameters, multiple_parameter_sets)
ConnectionExecute(c, queries) ==
    /\ Running
    /\ c \in DOMAIN connections
    /\ \E statements \in queries, many \in BOOLEAN :
        \E sets \in IF many THEN 0..MaxParameterSets ELSE {1} :
            Returns("execute", c, Execute(connections[c], statements, many, sets))
    /\ UNCHANGED not_connection_vars

\* executemany(query, parameters)
ConnectionExecuteMany(c, queries) ==
    /\ Running
    /\ c \in DOMAIN connections
    /\ \E statements \in queries, sets \in 0..MaxParameterSets :
        Returns("executemany", c, Execute(connections[c], statements, TRUE, sets))
    /\ UNCHANGED not_connection_vars

\* begin()
ConnectionBegin(c) ==
    /\ Running
    /\ c \in DOMAIN connections
    /\ \E begin \in OwnStatements :
        Returns("begin", c, Execute(connections[c], <<begin>>, FALSE, 1))
    /\ UNCHANGED not_connection_vars

\* commit(): connection->context is read without a check of the connection;
\* on a closed connection the process dies, or IsAutoCommit returns what it
\* finds at the null address
ConnectionCommit(c) ==
    /\ Running
    /\ c \in DOMAIN connections
    /\ IF ~connections[c].connection
       THEN /\ UNCHANGED connections
            /\ \/ py_call' = PyCall("commit", c, Raised(connections[c], Segfault), TRUE)
               \/ py_call' = PyCall("commit", c, Raised(connections[c], NoPyError), TRUE)
               \/ py_call' = PyCall("commit", c,
                                     Execute(connections[c], <<"ok">>, FALSE, 1), TRUE)
       ELSE \E IsAutoCommit \in BOOLEAN, commit \in OwnStatements :
               IF IsAutoCommit
               THEN /\ UNCHANGED connections
                    /\ py_call' = PyCall("commit", c, Raised(connections[c], NoPyError), FALSE)
               ELSE Returns("commit", c, Execute(connections[c], <<commit>>, FALSE, 1))
    /\ UNCHANGED not_connection_vars

\* rollback()
ConnectionRollback(c) ==
    /\ Running
    /\ c \in DOMAIN connections
    /\ \E rollback \in OwnStatements :
        Returns("rollback", c, Execute(connections[c], <<rollback>>, FALSE, 1))
    /\ UNCHANGED not_connection_vars

\* register(view_name, df)
ConnectionRegisterDF(c) ==
    /\ Running
    /\ c \in DOMAIN connections
    /\ \E view \in OwnStatements, bind \in OwnStatements :
        Returns("register", c, RegisterDF(connections[c], view, bind))
    /\ UNCHANGED not_connection_vars

\* append(table_name, df)
ConnectionAppend(c) ==
    /\ Running
    /\ c \in DOMAIN connections
    /\ \E view \in OwnStatements, bind \in OwnStatements, insert \in OwnStatements :
        LET registered == RegisterDF(connections[c], view, bind)
        IN  Returns("append", c,
                 IF registered.error # NoPyError THEN registered
                 ELSE Execute(registered.conn, <<insert>>, FALSE, 1))
    /\ UNCHANGED not_connection_vars

\* table, view, values, table_function, from_df, from_csv_auto, from_parquet
\* and from_arrow_table: a relation on the connection
ConnectionRelation(c, op) ==
    /\ Running
    /\ c \in DOMAIN connections
    /\ \E is_table \in IF op = "from_arrow_table" THEN BOOLEAN ELSE {TRUE} :
        IF ~connections[c].connection
        THEN /\ UNCHANGED connections
             /\ py_call' = PyCall(op, c, Raised(connections[c], ConnectionClosed), FALSE)
        ELSE IF op = "from_arrow_table" /\ ~is_table
        THEN /\ UNCHANGED connections
             /\ py_call' = PyCall(op, c, Raised(connections[c],
                                   PyError("Only arrow tables supported", 0)), FALSE)
        ELSE /\ UNCHANGED connections
             /\ py_call' = PyCall(op, c, Raised(connections[c], NoPyError), FALSE)
    /\ UNCHANGED not_connection_vars

\* fetchone() and fetchall() of the connection
ConnectionFetch(c, op) ==
    /\ Running
    /\ c \in DOMAIN connections
    /\ py_call' = PyCall(op, c, Raised(connections[c], IF connections[c].result = NullResult
                                THEN NoOpenResultSet ELSE NoPyError), FALSE)
    /\ UNCHANGED <<connections, not_connection_vars>>

\* cursor() and duplicate(): *res->database is read without a check of the
\* database; on a closed connection the process dies, or the cursor is
\* connected to what is at the null address
ConnectionCursor(c) ==
    /\ Running
    /\ c \in DOMAIN connections
    /\ Len(connections) < MaxConnections
    /\ LET res == [DuckDBPyConnection EXCEPT !.database = connections[c].database]
           created == Append([connections EXCEPT ![c].cursors =
                                 Append(@, Len(connections) + 1)], res)
       IN  IF connections[c].database
           THEN /\ connections' = created
                /\ py_call' = PyCall("cursor", c, Raised(connections[c], NoPyError), FALSE)
           ELSE \/ /\ UNCHANGED connections
                   /\ py_call' = PyCall("cursor", c, Raised(connections[c], Segfault), TRUE)
                \/ /\ connections' = created
                   /\ py_call' = PyCall("cursor", c, Raised(connections[c], NoPyError), TRUE)
    /\ UNCHANGED not_connection_vars

\* close()
ConnectionClose(c) ==
    /\ Running
    /\ c \in DOMAIN connections
    /\ connections' = CloseConnection(connections, c)
    /\ py_call' = PyCall("close", c, Raised(connections[c], NoPyError), FALSE)
    /\ UNCHANGED not_connection_vars

\* how the last Execute of each connection ended
TrackExecuted ==
    executed' = [executed EXCEPT ![py_call'.conn] =
                    IF py_call'.executed = "none" THEN @ ELSE py_call'.executed]

\* the calls of a python program on one connection
NextExecute ==
    \E c \in ConnectionIds :
        \/ ConnectionExecute(c, Queries) /\ TrackExecuted
        \/ ConnectionExecuteMany(c, Queries) /\ TrackExecuted
        \/ ConnectionBegin(c) /\ TrackExecuted
        \/ ConnectionCommit(c) /\ TrackExecuted
        \/ ConnectionRollback(c) /\ TrackExecuted
        \/ ConnectionRegisterDF(c) /\ TrackExecuted
        \/ ConnectionAppend(c) /\ TrackExecuted
        \/ \E op \in RelationOperations : ConnectionRelation(c, op) /\ TrackExecuted
        \/ \E op \in {"fetchone", "fetchall"} : ConnectionFetch(c, op) /\ TrackExecuted
        \/ ConnectionClose(c) /\ TrackExecuted

\* the calls of a python program on a connection and its cursors
NextClose ==
    \E c \in ConnectionIds :
        \/ ConnectionExecute(c, ShortQueries) /\ UNCHANGED executed
        \/ ConnectionExecuteMany(c, ShortQueries) /\ UNCHANGED executed
        \/ ConnectionBegin(c) /\ UNCHANGED executed
        \/ ConnectionCommit(c) /\ UNCHANGED executed
        \/ ConnectionRollback(c) /\ UNCHANGED executed
        \/ ConnectionRegisterDF(c) /\ UNCHANGED executed
        \/ ConnectionAppend(c) /\ UNCHANGED executed
        \/ \E op \in RelationOperations : ConnectionRelation(c, op) /\ UNCHANGED executed
        \/ \E op \in {"fetchone", "fetchall"} : ConnectionFetch(c, op) /\ UNCHANGED executed
        \/ ConnectionCursor(c) /\ UNCHANGED executed
        \/ ConnectionClose(c) /\ UNCHANGED executed

\* the query strings a python program executes on one connection
SpecExecute == InitConnection /\ [][NextExecute]_vars

\* a python program that opens cursors and closes connections
SpecClose == InitConnection /\ [][NextClose]_vars

----------------------------------------------------------------------------
(* DuckDBPyResult: Fetchone and Fetchall *)

\* the sizes of the chunks of a query result
ChunkSizes == {<<>>} \cup SeqsUpTo(1..STANDARD_VECTOR_SIZE, MaxChunks)

\* a DataChunk of a result, and the null unique_ptr<DataChunk>
DataChunk(index, size) == [null |-> FALSE, index |-> index, size |-> size]

NullChunk == [null |-> TRUE, index |-> 0, size |-> 0]

\* what QueryResult::Fetch returns after the last chunk
EndOfResult == {NullChunk, DataChunk(0, 0)}

\* what a method of the result returns: None, a row, a list of rows, or an
\* error
PyReturn(kind, rows) == [kind |-> kind, rows |-> rows]

\* a DuckDBPyResult on a query result with chunks of the given sizes: the
\* members of the struct, the chunk QueryResult::Fetch returns next, the rows
\* returned so far and what the last call returned
DuckDBPyResult(sizes) ==
    [result |-> TRUE, chunks |-> sizes, next |-> 1, current_chunk |-> NullChunk,
     chunk_offset |-> 0, fetched |-> <<>>, returned |-> PyReturn("none", <<>>)]

\* result->Fetch(): the next chunk, or `end` after the last one
QueryResultFetch(r, end) ==
    IF r.next <= Len(r.chunks)
    THEN [r EXCEPT !.current_chunk = DataChunk(r.next, r.chunks[r.next]), !.next = @ + 1]
    ELSE [r EXCEPT !.current_chunk = end]

\* !current_chunk || chunk_offset >= current_chunk->size()
NeedsChunkLate(current_chunk, chunk_offset) ==
    current_chunk.null \/ chunk_offset > current_chunk.size

NeedsChunk(current_chunk, chunk_offset) ==
    current_chunk.null \/ chunk_offset >= current_chunk.size

\* DuckDBPyResult::Fetchone: the row at chunk_offset of the current chunk
Fetchone(r, end) ==
    IF ~r.result
    THEN [r EXCEPT !.returned = PyReturn("result closed", <<>>)]
    ELSE LET chunked == IF NeedsChunk(r.current_chunk, r.chunk_offset)
                        THEN [QueryResultFetch(r, end) EXCEPT !.chunk_offset = 0]
                        ELSE r
         IN  IF chunked.current_chunk.null \/ chunked.current_chunk.size = 0
             THEN [chunked EXCEPT !.returned = PyReturn("None", <<>>)]
             ELSE LET res == <<chunked.current_chunk.index, chunked.chunk_offset>>
                  IN  [chunked EXCEPT !.chunk_offset = @ + 1,
                                      !.fetched = Append(@, res),
                                      !.returned = PyReturn("row", <<res>>)]

\* DuckDBPyResult::Fetchall: the rows Fetchone returns until it returns None
RECURSIVE Fetchall(_, _, _)
Fetchall(r, end, res) ==
    LET fres == Fetchone(r, end)
    IN  IF fres.returned.kind = "result closed" THEN fres
        ELSE IF fres.returned.kind = "None"
        THEN [fres EXCEPT !.returned = PyReturn("list", res)]
        ELSE Fetchall(fres, end, res \o fres.returned.rows)

\* a result that was just executed
InitResult ==
    /\ NoStorage
    /\ NoPandasScan
    /\ NoConnections
    /\ conversion = <<>>
    /\ arrow_stream = <<>>
    /\ \E sizes \in ChunkSizes : py_result = DuckDBPyResult(sizes)

\* fetchone()
ResultFetchone ==
    /\ \E end \in EndOfResult : py_result' = Fetchone(py_result, end)
    /\ UNCHANGED not_result_vars

\* fetchall()
ResultFetchall ==
    /\ \E end \in EndOfResult : py_result' = Fetchall(py_result, end, <<>>)
    /\ UNCHANGED not_result_vars

\* close()
ResultClose ==
    /\ py_result' = [py_result EXCEPT !.result = FALSE,
                                      !.returned = PyReturn("none", <<>>)]
    /\ UNCHANGED not_result_vars

NextResult == ResultFetchone \/ ResultFetchall \/ ResultClose

\* a python program that fetches the rows of a result
SpecResult == InitResult /\ [][NextResult]_vars

----------------------------------------------------------------------------
(* NumpyResultConversion: the arrays FetchNumpy fills *)

\* the sizes of the chunks of the result that FetchNumpy converts
NumpyChunkSizes == {<<>>} \cup SeqsUpTo(1..STANDARD_VECTOR_SIZE, MaxNumpyChunks)

\* the rows of chunks of the given sizes
RECURSIVE TotalCount(_)
TotalCount(sizes) ==
    IF sizes = <<>> THEN 0 ELSE sizes[1] + TotalCount(Tail(sizes))

\* a RawArrayWrapper: the rows written and the rows the array has room for
RawArrayWrapper(count, capacity) == [count |-> count, capacity |-> capacity]

\* ArrayWrapper::Initialize and ArrayWrapper::Resize: the data and the mask
\* arrays get the new capacity
ArrayWrapperResize(column, new_capacity) ==
    [column EXCEPT !.data.capacity = new_capacity, !.mask.capacity = new_capacity]

\* NumpyResultConversion::Resize
Resize(conv, new_capacity) ==
    [conv EXCEPT !.owned_data = [c \in DOMAIN @ |-> ArrayWrapperResize(@[c], new_capacity)],
                 !.capacity = new_capacity]

\* NumpyResultConversion(types, initial_capacity), for a result of the given
\* type with the chunks that are still to be appended
NumpyResultConversion(columns, initial_capacity, type, sizes) ==
    Resize([count |-> 0, capacity |-> 0,
            owned_data |-> [c \in 1..columns |->
                               [data |-> RawArrayWrapper(0, 0), mask |-> RawArrayWrapper(0, 0)]],
            type |-> type, chunks |-> sizes, resized |-> 0, past_end |-> FALSE],
           initial_capacity)

\* the initial capacity FetchNumpy chooses
InitialCapacity(type, sizes) ==
    IF type = "MATERIALIZED_RESULT" THEN TotalCount(sizes) ELSE STANDARD_VECTOR_SIZE * 2

\* Resize(capacity * 2)
NewCapacitySame(capacity) == capacity

NewCapacity(capacity) == capacity * 2

\* ArrayWrapper::Append: count rows are written at current_offset
ArrayWrapperAppend(column, current_offset, count) ==
    [column EXCEPT !.data.count = @ + count, !.mask.count = @ + count]

\* NumpyResultConversion::Append of a chunk of `size` rows; past_end tells
\* that rows were written after the end of an array
NumpyAppend(conv, size) ==
    LET resized == IF conv.count + size > conv.capacity
                   THEN [Resize(conv, NewCapacity(conv.capacity)) EXCEPT !.resized = @ + 1]
                   ELSE conv
    IN  [resized EXCEPT
            !.owned_data = [c \in DOMAIN @ |-> ArrayWrapperAppend(@[c], resized.count, size)],
            !.count = @ + size,
            !.past_end = @ \/ resized.count + size > resized.capacity]

\* FetchNumpy has constructed the conversion for a result
InitConversion ==
    /\ NoStorage
    /\ NoPandasScan
    /\ NoConnections
    /\ py_result = <<>>
    /\ arrow_stream = <<>>
    /\ \E columns \in 1..MaxColumns, sizes \in NumpyChunkSizes,
          type \in {"MATERIALIZED_RESULT", "STREAM_RESULT"} :
        conversion = NumpyResultConversion(columns, InitialCapacity(type, sizes), type, sizes)

\* FetchNumpy: conversion.Append of the next chunk of the result
ConversionAppend ==
    /\ conversion.chunks # <<>>
    /\ conversion' = [NumpyAppend(conversion, Head(conversion.chunks)) EXCEPT
                         !.chunks = Tail(conversion.chunks)]
    /\ UNCHANGED not_conversion_vars

NextConversion == ConversionAppend

\* FetchNumpy on materialized and on streamed results
SpecConversion == InitConversion /\ [][NextConversion]_vars

----------------------------------------------------------------------------
(* PythonTableArrowArrayStream: the record batches of an Arrow table *)

\* what a callback of the stream returned: its return value, the batch
\* exported to `out` (0 when out->release was set to nullptr, -1 when `out`
\* was not written), the error string returned by get_last_error, and whether
\* the callback read or wrote the deleted PythonTableArrowArrayStream
StreamReturn(op, code, out, message, undefined) ==
    [op |-> op, code |-> code, out |-> out, message |-> message, undefined |-> undefined]

\* the process has died in a callback
StreamCrash(op) == StreamReturn(op, -1, -1, "segfault", TRUE)

\* PythonTableArrowArrayStream(arrow_table) on a table of `count` batches:
\* stream.release, whether the object that holds the stream was deleted,
\* last_error, py::len(batches), batch_idx, the batches exported so far and
\* what the last callback returned
PythonTableArrowArrayStream(count) ==
    [release |-> TRUE, deleted |-> FALSE, last_error |-> "", batches |-> count,
     batch_idx |-> 0, exported |-> <<>>,
     returned |-> StreamReturn("none", 0, -1, "", FALSE)]

\* a stream on a table of any number of batches
InitStream ==
    /\ NoStorage
    /\ NoPandasScan
    /\ NoConnections
    /\ py_result = <<>>
    /\ conversion = <<>>
    /\ \E count \in 0..MaxBatches : arrow_stream = PythonTableArrowArrayStream(count)

\* the process runs
StreamRunning == arrow_stream.returned.message # "segfault"

\* a callback on a stream whose object was deleted by release reads
\* stream->release in freed memory: it finds the nullptr that release stored
\* and goes on as if the object were alive, or it finds other bytes and uses
\* them as the object, or the process dies
UseAfterFree(op, as_released) ==
    \/ arrow_stream' = [arrow_stream EXCEPT !.returned = [as_released EXCEPT !.undefined = TRUE]]
    \/ arrow_stream' = [arrow_stream EXCEPT !.returned = StreamReturn(op, 0, -1, "", TRUE)]
    \/ arrow_stream' = [arrow_stream EXCEPT !.returned = StreamCrash(op)]

\* MyStreamGetSchema
StreamGetSchema ==
    /\ StreamRunning
    /\ IF arrow_stream.deleted
       THEN UseAfterFree("get_schema", StreamReturn("get_schema", -1, -1, "", FALSE))
       ELSE IF ~arrow_stream.release
       THEN arrow_stream' = [arrow_stream EXCEPT
                !.last_error = "stream was released",
                !.returned = StreamReturn("get_schema", -1, -1, "", FALSE)]
       ELSE arrow_stream' = [arrow_stream EXCEPT
                !.returned = StreamReturn("get_schema", 0, -1, "", FALSE)]
    /\ UNCHANGED not_stream_vars

\* MyStreamGetNext
StreamGetNext ==
    /\ StreamRunning
    /\ IF arrow_stream.deleted
       THEN UseAfterFree("get_next", StreamReturn("get_next", -1, -1, "", FALSE))
       ELSE IF ~arrow_stream.release
       THEN arrow_stream' = [arrow_stream EXCEPT
                !.last_error = "stream was released",
                !.returned = StreamReturn("get_next", -1, -1, "", FALSE)]
       ELSE IF arrow_stream.batch_idx >= arrow_stream.batches
       THEN arrow_stream' = [arrow_stream EXCEPT
                !.returned = StreamReturn("get_next", 0, 0, "", FALSE)]
       ELSE arrow_stream' = [arrow_stream EXCEPT
                !.batch_idx = @ + 1,
                !.exported = Append(@, arrow_stream.batch_idx + 1),
                !.returned = StreamReturn("get_next", 0, arrow_stream.batch_idx + 1, "", FALSE)]
    /\ UNCHANGED not_stream_vars

\* MyStreamRelease: stream->release = nullptr, and the object that holds the
\* stream is deleted
StreamRelease ==
    /\ StreamRunning
    /\ IF arrow_stream.deleted
       THEN UseAfterFree("release", StreamReturn("release", 0, -1, "", FALSE))
       ELSE IF ~arrow_stream.release
       THEN arrow_stream' = [arrow_stream EXCEPT
                !.returned = StreamReturn("release", 0, -1, "", FALSE)]
       ELSE arrow_stream' = [arrow_stream EXCEPT
                !.release = FALSE,
                !.deleted = TRUE,
                !.returned = StreamReturn("release", 0, -1, "", FALSE)]
    /\ UNCHANGED not_stream_vars

\* MyStreamGetLastError
StreamGetLastError ==
    /\ StreamRunning
    /\ IF arrow_stream.deleted
       THEN UseAfterFree("get_last_error",
                         StreamReturn("get_last_error", 0, -1, "stream was released", FALSE))
       ELSE IF ~arrow_stream.release
       THEN arrow_stream' = [arrow_stream EXCEPT
                !.returned = StreamReturn("get_last_error", 0, -1, "stream was released", FALSE)]
       ELSE arrow_stream' = [arrow_stream EXCEPT
                !.returned = StreamReturn("get_last_error", 0, -1, arrow_stream.last_error, FALSE)]
    /\ UNCHANGED not_stream_vars

NextStream == StreamGetSchema \/ StreamGetNext \/ StreamRelease \/ StreamGetLastError

\* a consumer of the stream of an Arrow table
SpecStream == InitStream /\ [][NextStream]_vars

----------------------------------------------------------------------------
(* Helpers of the properties *)

Range(seq) == {seq[k] : k \in DOMAIN seq}

RECURSIVE Compress(_)
\* seq without the repetitions of an element right after itself
Compress(seq) ==
    IF Len(seq) <= 1 THEN seq
    ELSE LET rest == Compress(Tail(seq))
         IN  IF Head(seq) = Head(rest) THEN rest ELSE <<Head(seq)>> \o rest

RECURSIVE Ascending(_)
\* the elements of a set of numbers, in increasing order
Ascending(S) ==
    IF S = {} THEN <<>>
    ELSE LET m == CHOOSE x \in S : \A y \in S : x <= y
         IN  <<m>> \o Ascending(S \ {m})

IsDeleteOrUpdate(e) == e.type \in {"DELETE_TUPLE", "UPDATE_TUPLE"}

\* the deletion and update entries that reached SwitchTable and got through it
Switched ==
    {i \in DOMAIN undo_log :
        /\ IsDeleteOrUpdate(undo_log[i])
        /\ \E c \in Range(Wal) : c.entry = i}

TablesOf(idx) == [k \in DOMAIN idx |-> undo_log[idx[k]].table]
TargetsOf(calls) == [k \in DOMAIN calls |-> calls[k].target]

\* the undo log holds deletions and updates of permanent tables only
OnlyLoggedDeletesAndUpdates ==
    /\ has_log
    /\ \A i \in DOMAIN undo_log :
          IsDeleteOrUpdate(undo_log[i]) /\ ~IsTemporary(undo_log[i].table)

----------------------------------------------------------------------------
(* C1 *)

\* C1: the markers the log sink received name, in order, the tables of the
\* logged deletion and update entries with every run of the same table
\* counted once; so the first logged entry has a marker before its record and
\* no two markers in a row name the same table.
C1_OneMarkerPerRun ==
    /\ TargetsOf(Markers) = Compress(TablesOf(Ascending(Switched)))
    /\ \A k \in 1..(Len(Markers) - 1) : Markers[k].target # Markers[k + 1].target
    /\ OnlyLoggedDeletesAndUpdates /\ Wal # <<>> => IsMarker(Wal[1])

\* the undo log [A, B, A] of deletions and updates is committed with the
\* markers A, B, A
C1_Witness ==
    /\ OnlyLoggedDeletesAndUpdates
    /\ status = "committed"
    /\ TablesOf(Ascending(Switched)) = <<"A", "B", "A">>
    /\ TargetsOf(Markers) = <<"A", "B", "A">>

----------------------------------------------------------------------------
(* C2 *)

\* the row entries before j with a record in the log
LoggedRowsBefore(j) ==
    {i \in 1..(j - 1) :
        IsRow(undo_log[i]) /\ \E c \in Range(Wal) : IsRecord(c) /\ c.entry = i}

Last(S) == CHOOSE x \in S : \A y \in S : y <= x

\* C2: the record of a deletion or update entry is written right after a
\* marker of its table whenever the logged row entry before it, of whatever
\* kind, is on another table.
C2_MarkerAfterAnyKind ==
    \A k \in DOMAIN Wal :
        LET c == Wal[k]
        IN  c.op \in {"WriteDelete", "WriteUpdate"} /\ LoggedRowsBefore(c.entry) # {} /\
            undo_log[Last(LoggedRowsBefore(c.entry))].table # undo_log[c.entry].table
            => k > 1 /\ IsMarker(Wal[k - 1]) /\ Wal[k - 1].target = undo_log[c.entry].table

----------------------------------------------------------------------------
(* C3 *)

\* an entry that must stay out of the log: there is no log, or its table, the
\* catalog entry or the parent of the catalog entry is temporary
OutOfLog(e) ==
    \/ ~has_log
    \/ IsRow(e) /\ IsTemporary(e.table)
    \/ IsCatalog(e) /\ (e.temporary \/ e.parent_temporary)

\* entry i carries the commit id: its rows, or its parent and, when renamed,
\* the catalog entry itself
StampedIn(i, ver, ts) ==
    IF IsCatalog(undo_log[i])
    THEN /\ ts[i].parent = NewCommitId
         /\ undo_log[i].name # undo_log[i].parent_name => ts[i].entry = NewCommitId
    ELSE ver[i] = NewCommitId

Stamped(i) == StampedIn(i, version, timestamp)

NoLogCallOutOfLog ==
    \A c \in Range(trace) : IsLogCall(c) => ~OutOfLog(undo_log[c.entry])

C3_Step ==
    /\ NoLogCallOutOfLog'
    /\ status = "committing" /\ OutOfLog(Entry)
       => /\ current_table_info' = current_table_info
          /\ Wal' = Wal
          /\ pos' = pos + 1 => StampedIn(pos, version', timestamp')

----------------------------------------------------------------------------
(* C4 *)

StampOps == {"CommitAppend", "CommitDelete", "version_number"}

RecordBefore(k, i) == \E j \in 1..(k - 1) : IsRecord(trace[j]) /\ trace[j].entry = i

\* C4: with a log, the rows of an insertion, deletion or update entry of a
\* permanent table get the commit id only after the record of the entry was
\* written: no such entry carries the commit id without its record in the log.
C4_LogBeforeStamp ==
    /\ \A k \in DOMAIN trace :
          (/\ trace[k].op \in StampOps
           /\ trace[k].id = NewCommitId
           /\ has_log
           /\ ~IsTemporary(undo_log[trace[k].entry].table))
          => RecordBefore(k, trace[k].entry)
    /\ \A i \in DOMAIN undo_log :
          (/\ IsRow(undo_log[i])
           /\ has_log
           /\ ~IsTemporary(undo_log[i].table)
           /\ version[i] = NewCommitId)
          => \E c \in Range(Wal) : IsRecord(c) /\ c.entry = i

\* an insertion, a deletion and an update of permanent tables, logged and
\* stamped
C4_Witness ==
    /\ has_log
    /\ status = "committed"
    /\ \A t \in {"INSERT_TUPLE", "DELETE_TUPLE", "UPDATE_TUPLE"} :
          \E i \in DOMAIN undo_log :
             /\ undo_log[i].type = t
             /\ ~IsTemporary(undo_log[i].table)
             /\ version[i] = NewCommitId
             /\ \E c \in Range(Wal) : IsRecord(c) /\ c.entry = i

----------------------------------------------------------------------------
(* C8 *)

\* entry i is as it was before the commit, and no call was made for it
Untouched(i) ==
    /\ version[i] = IF IsCatalog(undo_log[i]) THEN 0 ELSE transaction_id
    /\ IsCatalog(undo_log[i]) =>
          timestamp[i] = [parent |-> transaction_id, entry |-> undo_log[i].timestamp0]
    /\ \A c \in Range(trace) : c.entry # i

\* the state a failed write of the log sink leaves, at entry pos
AfterFailedWrite ==
    status = "failed" /\ error = "IOException"
    => /\ \A i \in 1..(pos - 1) : Stamped(i)
       /\ \A i \in (pos + 1)..Len(undo_log) : Untouched(i)
       /\ IsRow(undo_log[pos]) => version[pos] = transaction_id
       /\ \A c \in Range(Wal) : IsRecord(c) => c.entry # pos

C8_Step ==
    /\ AfterFailedWrite'
    /\ status = "failed" => trace' = trace /\ version' = version /\ timestamp' = timestamp

\* C8: a failed write of the log sink at entry k ends the traversal at once:
\* the entries before k keep the commit id, the entries after k are neither
\* logged nor stamped, a row entry k is not stamped and its record is not
\* written, and nothing is written or stamped afterwards.
C8_FailedWriteStops == [][C8_Step]_vars

\* the write of the second of three entries failed, after the marker
C8_Witness ==
    /\ status = "failed" /\ error = "IOException"
    /\ Len(undo_log) = 3 /\ pos = 2
    /\ IsRow(undo_log[1]) /\ Stamped(1)
    /\ IsRow(undo_log[2]) /\ version[2] = transaction_id
    /\ \E c \in Range(Wal) : IsMarker(c) /\ c.entry = 2

----------------------------------------------------------------------------
(* C9 *)

UnknownType(e) == ~IsRow(e) /\ ~IsCatalog(e)

C9_Step ==
    /\ status = "committing" /\ UnknownType(Entry)
       => /\ status' = "failed" /\ error' = "NotImplementedException"
          /\ UNCHANGED <<trace, version, timestamp, current_table_info>>
    /\ status = "reverting" /\ UnknownType(Entry)
       => /\ status' = "revert_failed" /\ error' = "NotImplementedException"
          /\ UNCHANGED <<trace, version, timestamp, current_table_info>>

\* C9: CommitEntry and RevertCommit on an entry of a type other than catalog
\* change, insertion, deletion and update throw a NotImplementedException and
\* stamp nothing, log nothing and leave the current table as it was.
C9_UnknownTypeThrows == [][C9_Step]_vars

\* the commit threw at an entry of an unknown type after a logged entry, and
\* the revert of the commit threw at it again
C9_Witness ==
    /\ status = "revert_failed" /\ error = "NotImplementedException"
    /\ has_log
    /\ pos = 2 /\ UnknownType(undo_log[2])
    /\ \E c \in Range(Wal) : c.entry = 1
    /\ \A c \in Range(trace) : c.entry # 2

----------------------------------------------------------------------------
(* C5 *)

Scanned == scan # NoScan

\* the entries whose effect the scan returned
Seen == {i \in DOMAIN scan.rows : scan.rows[i] \in {"inserted", "deleted", "updated"}}

ByAnother == Scanned /\ scan.tid = other_transaction_id

----------------------------------------------------------------------------
(* C6 *)

\* C6: a scan of an updated row under a snapshot at or above the commit id
\* returns the updated value once the update carries the commit id, and so
\* does a scan by the updating transaction before its commit; a scan by
\* another transaction under a snapshot below the commit id returns the
\* original value, before the update is stamped and after it.
C6_UpdateOverlay ==
    Scanned =>
    \A i \in DOMAIN scan.rows :
        undo_log[i].type = "UPDATE_TUPLE" =>
        /\ (scan.tid = other_transaction_id /\ scan.snapshot >= NewCommitId
            /\ scan.version[i] = NewCommitId) => scan.rows[i] = "updated"
        /\ scan.tid = transaction_id => scan.rows[i] = "updated"
        /\ (scan.tid = other_transaction_id /\ scan.snapshot < NewCommitId)
           => scan.rows[i] = "original"

\* two updates, both stamped with the commit id: a reader of another
\* transaction at the commit id gets the updated value of both
C6_Witness ==
    /\ ByAnother /\ scan.snapshot >= NewCommitId
    /\ Len(undo_log) = 2
    /\ undo_log[1].type = "UPDATE_TUPLE" /\ undo_log[2].type = "UPDATE_TUPLE"
    /\ scan.version[1] = NewCommitId /\ scan.version[2] = NewCommitId
    /\ scan.rows[1] = "updated" /\ scan.rows[2] = "updated"

----------------------------------------------------------------------------
(* C7 *)

\* the entries (parent, entry) stamped with the id
StampedWith(id) ==
    {c.target : c \in {d \in Range(trace) : d.op = "UpdateTimestamp" /\ d.id = id}}

\* C7: after CommitEntry and RevertCommit of a catalog change whose parent
\* and, when renamed, whose entry carried the transaction id, the revert has
\* stamped the entries the commit stamped and every timestamp is the one
\* before the commit.
C7_RevertRestoresTimestamps ==
    (/\ status = "reverted"
     /\ undo_log[1].name # undo_log[1].parent_name => undo_log[1].timestamp0 = transaction_id)
    => /\ StampedWith(transaction_id) = StampedWith(NewCommitId)
       /\ timestamp[1] = [parent |-> transaction_id, entry |-> undo_log[1].timestamp0]

\* a renamed entry, committed and reverted
C7_Witness ==
    /\ status = "reverted"
    /\ undo_log[1].name # undo_log[1].parent_name
    /\ undo_log[1].timestamp0 = transaction_id
    /\ StampedWith(NewCommitId) = {"parent", "entry"}
    /\ timestamp[1] = [parent |-> transaction_id, entry |-> transaction_id]

----------------------------------------------------------------------------
(* C10 *)

CreateTypes == {"TABLE_ENTRY", "SCHEMA_ENTRY", "VIEW_ENTRY", "SEQUENCE_ENTRY", "MACRO_ENTRY"}

\* the record of a catalog change, by the types of the parent and the entry
Record(parent_type, entry_type) ==
    CASE parent_type = "TABLE_ENTRY" ->
             IF entry_type = "TABLE_ENTRY" THEN "WriteAlter" ELSE "WriteCreateTable"
      [] parent_type = "SCHEMA_ENTRY" ->
             IF entry_type = "SCHEMA_ENTRY" THEN "none" ELSE "WriteCreateSchema"
      [] parent_type = "VIEW_ENTRY" ->
             IF entry_type = "VIEW_ENTRY" THEN "WriteAlter" ELSE "WriteCreateView"
      [] parent_type = "SEQUENCE_ENTRY" -> "WriteCreateSequence"
      [] parent_type = "MACRO_ENTRY" -> "WriteCreateMacro"
      [] parent_type = "DELETED_ENTRY" ->
             CASE entry_type = "TABLE_ENTRY" -> "WriteDropTable"
               [] entry_type = "SCHEMA_ENTRY" -> "WriteDropSchema"
               [] entry_type = "VIEW_ENTRY" -> "WriteDropView"
               [] entry_type = "SEQUENCE_ENTRY" -> "WriteDropSequence"
               [] entry_type = "MACRO_ENTRY" -> "WriteDropMacro"
               [] OTHER -> "none"
      [] OTHER -> "none"

\* C10: the commit of a catalog change that is not temporary writes, with a
\* log, at most one record, the one of the types of the parent and the
\* entry; a commit that ends well has written it.
C10_RecordByTypes ==
    (has_log /\ ~undo_log[1].temporary /\ ~undo_log[1].parent_temporary)
    => LET rec == Record(undo_log[1].parent_type, undo_log[1].entry_type)
       IN  /\ Len(Wal) <= 1
           /\ \A c \in Range(Wal) : c.op = rec
           /\ \A c \in Range(Wal) :
                 c.target = IF undo_log[1].parent_type \in CreateTypes /\ rec # "WriteAlter"
                            THEN "parent" ELSE "entry"
           /\ status = "committed" => (Wal = <<>>) = (rec = "none")

\* the drop of a view was committed and its record written
C10_Witness ==
    /\ has_log /\ ~undo_log[1].temporary /\ ~undo_log[1].parent_temporary
    /\ status = "committed"
    /\ undo_log[1].parent_type = "DELETED_ENTRY" /\ undo_log[1].entry_type = "VIEW_ENTRY"
    /\ Len(Wal) = 1 /\ Wal[1].op = "WriteDropView"

----------------------------------------------------------------------------
(* C11 *)

\* the UpdateTimestamp calls made with the id, in the order of the calls
StampCalls(id) == SelectSeq(trace, LAMBDA c : c.op = "UpdateTimestamp" /\ c.id = id)

\* the entries a catalog change stamps: its parent, and itself when renamed
StampSet(entry) ==
    IF entry.name # entry.parent_name THEN <<"parent", "entry">> ELSE <<"parent">>

\* CommitEntry is past the timestamps of the catalog change
CatalogStamped == ~(status = "committing" /\ step = 1)

\* C11: once CommitEntry is past the timestamps of a catalog change, with or
\* without a log, it has stamped with the commit id the parent and, exactly
\* when the names differ, the entry; every such stamp precedes every log
\* call of the entry; and a finished revert has stamped the same entries
\* with the transaction id.
C11_StampParentAndRenamed ==
    /\ CatalogStamped =>
          /\ TargetsOf(StampCalls(NewCommitId)) = StampSet(undo_log[1])
          /\ status \in {"committing", "committed", "failed"} =>
                /\ timestamp[1].parent = NewCommitId
                /\ timestamp[1].entry = IF undo_log[1].name # undo_log[1].parent_name
                                        THEN NewCommitId ELSE undo_log[1].timestamp0
    /\ ~CatalogStamped => StampCalls(NewCommitId) = <<>> /\ Wal = <<>>
    /\ \A k, l \in DOMAIN trace :
          (IsLogCall(trace[k]) /\ trace[l].op = "UpdateTimestamp" /\ trace[l].id = NewCommitId)
          => l < k
    /\ status = "reverted" =>
          TargetsOf(StampCalls(transaction_id)) = StampSet(undo_log[1])

\* a renamed table was altered with a log: both stamps, then the record,
\* then the revert
C11_Witness ==
    /\ has_log
    /\ status = "reverted"
    /\ undo_log[1].name # undo_log[1].parent_name
    /\ TargetsOf(StampCalls(NewCommitId)) = <<"parent", "entry">>
    /\ TargetsOf(StampCalls(transaction_id)) = <<"parent", "entry">>
    /\ \E k \in DOMAIN trace : trace[k].op = "WriteAlter" /\ k > 2

----------------------------------------------------------------------------
(* C12 *)

DropOps == {"WriteDropTable", "WriteDropSchema", "WriteDropView", "WriteDropSequence",
            "WriteDropMacro"}

\* the hook of an alter record and of a drop record
Hook(op) == IF op = "WriteAlter" THEN "CommitAlter" ELSE "CommitDrop"

IsHook(c) == c.op \in {"CommitAlter", "CommitDrop"}

\* the alter and drop records of table entries
IsTableAlterOrDrop(c) ==
    \/ c.op = "WriteDropTable"
    \/ c.op = "WriteAlter" /\ undo_log[c.entry].entry_type = "TABLE_ENTRY"

\* no hook of an entry comes after an alter or drop record of that entry
NoHookAfterWrite ==
    \A k, l \in DOMAIN trace :
        (IsHook(trace[l]) /\ trace[k].op \in DropOps \cup {"WriteAlter"}
         /\ trace[k].entry = trace[l].entry)
        => l < k

\* C12 as stated: every alter record and every drop record of a catalog
\* entry comes after the hook of that entry, CommitAlter for an alter and
\* CommitDrop for a drop, and no hook comes after its record.
C12_HookBeforeEveryAlterOrDrop ==
    /\ \A k \in DOMAIN trace :
          trace[k].op \in DropOps \cup {"WriteAlter"}
          => \E l \in 1..(k - 1) : /\ trace[l].op = Hook(trace[k].op)
                                   /\ trace[l].entry = trace[k].entry
    /\ NoHookAfterWrite

\* C12, for table entries: the alter record and the drop record of a table
\* come right after CommitAlter, CommitDrop of that entry; the hooks are
\* invoked for table entries only, so the alter record of a view and the
\* drop records of schemas, views, sequences and macros come with no hook;
\* and no hook comes after its record.
C12_HookBeforeTableAlterOrDrop ==
    /\ \A k \in DOMAIN trace :
          IsTableAlterOrDrop(trace[k])
          => /\ k > 1
             /\ trace[k - 1].op = Hook(trace[k].op)
             /\ trace[k - 1].entry = trace[k].entry
    /\ \A l \in DOMAIN trace :
          IsHook(trace[l]) => undo_log[trace[l].entry].entry_type = "TABLE_ENTRY"
    /\ NoHookAfterWrite

\* a table was dropped with a log: CommitDrop, then the drop record
C12_Witness ==
    /\ has_log /\ status = "committed"
    /\ undo_log[1].parent_type = "DELETED_ENTRY" /\ undo_log[1].entry_type = "TABLE_ENTRY"
    /\ \E k \in DOMAIN trace : /\ trace[k].op = "CommitDrop"
                               /\ trace[k + 1].op = "WriteDropTable"
                               /\ k + 1 = Len(trace)

----------------------------------------------------------------------------
(* C13 *)

\* the positions in the trace of the calls of an operation for an entry
CallsOf(op, i) == {k \in DOMAIN trace : trace[k].op = op /\ trace[k].entry = i}

\* CommitEntry went past the log write of the entry, to its stamp
WriteDone(op, i) == \E k \in CallsOf(op, i) : trace[k].id = NewCommitId

\* the row ids of a DeleteInfo, in the order of its rows
RowIdsOf(inf) == [j \in 1..inf.count |-> inf.base_row + inf.rows[j]]

\* C13: the commit of a deletion on a permanent table with a log hands the
\* log one WriteDelete batch, and no deletion more than one; the batch has
\* count rows, the i-th of them base_row + rows[i], whatever the
\* delete_chunk held from the entries before; without a log there is none.
C13_DeleteBatch ==
    \A i \in DOMAIN undo_log :
        LET recs == CallsOf("WriteDelete", i)
        IN  /\ Cardinality(recs) <= 1
            /\ (has_log /\ WriteDone("CommitDelete", i)) => Cardinality(recs) = 1
            /\ ~has_log => recs = {}
            /\ \A k \in recs : /\ Len(trace[k].rows) = undo_info[i].count
                               /\ trace[k].rows = RowIdsOf(undo_info[i])

\* a deletion of two rows, then one of a single row of the next vector: the
\* delete_chunk still holds a row id of the first beyond its cardinality,
\* and the second batch is the one row
C13_Witness ==
    /\ has_log /\ status = "committed" /\ Len(undo_log) = 2
    /\ undo_info[1].count = 2 /\ undo_info[2].count = 1
    /\ undo_info[2].base_row = STANDARD_VECTOR_SIZE /\ undo_info[2].rows = <<1>>
    /\ delete_chunk.data[2] = RowIdsOf(undo_info[1])[2]
    /\ \E k \in CallsOf("WriteDelete", 2) : trace[k].rows = <<STANDARD_VECTOR_SIZE + 1>>
    /\ CallsOf("WriteDelete", 1) # {}

----------------------------------------------------------------------------
(* C14 *)

\* C14: the commit of an update on a permanent table with a log hands the
\* log one WriteUpdate chunk, and no update more than one, with the index of
\* the column of the update; the chunk has N rows, the i-th of them the
\* committed value fetched at offset tuples[i] of the vector with the row id
\* segment start + vector_index * STANDARD_VECTOR_SIZE + tuples[i]; without
\* a log there is none.
C14_UpdateChunk ==
    \A i \in DOMAIN undo_log :
        LET recs == CallsOf("WriteUpdate", i)
            inf == undo_info[i]
            fetched == FetchCommitted(inf.segment_start, inf.vector_index)
        IN  /\ Cardinality(recs) <= 1
            /\ (has_log /\ WriteDone("version_number", i)) => Cardinality(recs) = 1
            /\ ~has_log => recs = {}
            /\ \A k \in recs :
                  /\ trace[k].column = inf.column_idx
                  /\ Len(trace[k].rows) = inf.N
                  /\ Len(trace[k].values) = inf.N
                  /\ \A j \in 1..inf.N :
                        /\ trace[k].rows[j] = inf.segment_start
                                              + inf.vector_index * STANDARD_VECTOR_SIZE
                                              + inf.tuples[j]
                        /\ trace[k].values[j] = fetched[inf.tuples[j] + 1]

\* an update of the tuples 0 and 2 of the second vector of a segment that
\* starts beyond row 0, in column 1, was written and stamped
C14_Witness ==
    /\ has_log /\ status = "committed"
    /\ undo_info[1].tuples = <<0, 2>> /\ undo_info[1].vector_index = 1
    /\ undo_info[1].segment_start = 2 * STANDARD_VECTOR_SIZE
    /\ undo_info[1].column_idx = 1
    /\ \E k \in CallsOf("WriteUpdate", 1) :
          /\ trace[k].rows = <<3 * STANDARD_VECTOR_SIZE, 3 * STANDARD_VECTOR_SIZE + 2>>
          /\ trace[k].column = 1
          /\ Len(trace[k].values) = 2

----------------------------------------------------------------------------
(* C15 *)

\* the step reverts the deletion at pos
RevertsDelete == status = "reverting" /\ Entry.type = "DELETE_TUPLE"

\* C15: RevertCommit of a deletion adds the count of the entry to the
\* cardinality of its table and marks the rows of the entry, base_row +
\* rows[i], with the transaction id in the version info of that table; the
\* cardinality and the version info of the other tables, the marks of the
\* other rows, the log, the current table and the delete_chunk stay as
\* they are.
C15_Step ==
    RevertsDelete =>
        LET t == Entry.table
            inf == undo_info[pos]
        IN  /\ cardinality'[t] = cardinality[t] + inf.count
            /\ \A r \in DeletedRows(inf) : deleted'[t][r] = transaction_id
            /\ \A r \in RowIds \ DeletedRows(inf) : deleted'[t][r] = deleted[t][r]
            /\ \A u \in Tables \ {t} : /\ cardinality'[u] = cardinality[u]
                                       /\ deleted'[u] = deleted[u]
            /\ Wal' = Wal
            /\ current_table_info' = current_table_info
            /\ delete_chunk' = delete_chunk
            /\ \A i \in DOMAIN undo_log : i # pos => version'[i] = version[i]

C15_RevertDelete == [][C15_Step]_vars

\* a committed deletion of two rows was reverted: the rows carry the
\* transaction id again and the table has all its rows
C15_Witness ==
    /\ status = "reverted" /\ Len(undo_log) = 1 /\ undo_info[1].count = 2
    /\ CallsOf("CommitDelete", 1) # {}
    /\ WriteDone("CommitDelete", 1)
    /\ \A r \in DeletedRows(undo_info[1]) : deleted["A"][r] = transaction_id
    /\ cardinality["A"] = Cardinality(RowIds)

----------------------------------------------------------------------------
(* C16 *)

\* C16: a step of RevertCommit, on an entry of any type and also when it
\* throws, hands nothing to the log, neither a marker nor a record, and
\* leaves the current table as it is, with and without a log.
C16_Step ==
    status = "reverting" => /\ Wal' = Wal
                            /\ current_table_info' = current_table_info

C16_RevertWritesNoLog == [][C16_Step]_vars

\* with a log, a deletion, an update and a catalog change were committed
\* and reverted: the log holds what the commit wrote, and every call after
\* it went to the tables and the catalog
C16_Witness ==
    /\ has_log /\ status = "reverted" /\ Len(undo_log) = 3
    /\ {undo_log[i].type : i \in DOMAIN undo_log}
          = {"DELETE_TUPLE", "UPDATE_TUPLE", "CATALOG_ENTRY"}
    /\ Len(Wal) >= 3
    /\ current_table_info = nullptr
    /\ \E k \in DOMAIN trace :
          /\ trace[k].id = transaction_id
          /\ \A l \in DOMAIN trace : IsLogCall(trace[l]) => l < k
          /\ Len(trace) - k = 3

----------------------------------------------------------------------------
(* C17 *)

\* the calls of the revert traversal
IsRevertCall(c) == c.op \in {"RevertAppend", "cardinality"} \/ c.id = transaction_id

\* the calls of the commit traversal
CommitCalls == SelectSeq(trace, LAMBDA c : ~IsRevertCall(c))

\* the calls that stamp an entry with the commit id, once per entry
IsCommitStamp(c) ==
    /\ c.id = NewCommitId
    /\ \/ c.op \in StampOps
       \/ c.op = "UpdateTimestamp" /\ c.target = "parent"

\* C17: the commit goes through the undo log once and in its order: the
\* calls of an entry never come after those of a later entry, no entry is
\* stamped, written or given a marker twice, a finished commit has stamped
\* every entry once; so the log holds the markers and records in the order
\* of the undo log, and the marker of an entry that has a record sits right
\* before that record.
C17_LogInUndoOrder ==
    LET calls == CommitCalls
        wal == Wal
    IN  /\ \A k \in DOMAIN calls : k < Len(calls) => calls[k].entry <= calls[k + 1].entry
        /\ \A k \in DOMAIN wal : k < Len(wal) => wal[k].entry <= wal[k + 1].entry
        /\ \A k, l \in DOMAIN wal :
              (k < l /\ wal[k].entry = wal[l].entry) => IsMarker(wal[k]) /\ IsRecord(wal[l])
        /\ \A k, l \in DOMAIN calls :
              (k < l /\ calls[k].entry = calls[l].entry)
              => ~(IsCommitStamp(calls[k]) /\ IsCommitStamp(calls[l]))
        /\ status = "committed" =>
              \A i \in DOMAIN undo_log :
                  \E k \in DOMAIN calls : IsCommitStamp(calls[k]) /\ calls[k].entry = i
        /\ \A k \in DOMAIN wal :
              (IsMarker(wal[k])
               /\ \E l \in DOMAIN wal : IsRecord(wal[l]) /\ wal[l].entry = wal[k].entry)
              => /\ k < Len(wal)
                 /\ IsRecord(wal[k + 1])
                 /\ wal[k + 1].entry = wal[k].entry

\* with a log, an update on A, a deletion on B and a deletion on B were
\* committed: marker and record of the first, marker and record of the
\* second, the record of the third
C17_Witness ==
    /\ has_log /\ status = "committed" /\ Len(undo_log) = 3
    /\ undo_log[1] = RowEntry("UPDATE_TUPLE", "A")
    /\ undo_log[2] = RowEntry("DELETE_TUPLE", "B")
    /\ undo_log[3] = RowEntry("DELETE_TUPLE", "B")
    /\ [k \in DOMAIN Wal |-> <<Wal[k].op, Wal[k].entry>>]
          = << <<"WriteSetTable", 1>>, <<"WriteUpdate", 1>>, <<"WriteSetTable", 2>>,
               <<"WriteDelete", 2>>, <<"WriteDelete", 3>> >>

----------------------------------------------------------------------------
(* C18 *)

\* the rows of the segments before segment k
RECURSIVE CountsBefore(_, _)
CountsBefore(tree, k) == IF k <= 1 THEN 0 ELSE tree[k - 1].count + CountsBefore(tree, k - 1)

IsRevertAppend(c) == c.op = "RevertAppend"

\* C18: after every sequence of Append and RevertAppend calls on a column,
\* each segment of its data SegmentTree starts at the sum of the counts of
\* the segments before it, the first at row 0, so the segments cover the
\* rows from 0 on with no gap and no overlap; and no segment holds more rows
\* than its capacity.
C18_SegmentsContiguous ==
    \A k \in DOMAIN segments :
        /\ segments[k].start = CountsBefore(segments, k)
        /\ segments[k].count <= SegmentCapacity

\* an append was cut back into the first segment, and the appends after it
\* filled that segment and went on in a second one
C18_Witness ==
    /\ Len(segments) = 2
    /\ segments[1].count = SegmentCapacity
    /\ segments[2].count > 0
    /\ \E p \in DOMAIN history :
          /\ IsRevertAppend(history[p])
          /\ history[p].start_row > 0
          /\ history[p].start_row < SegmentCapacity
          /\ p < Len(history)

----------------------------------------------------------------------------
(* C19 *)

\* the rows of the Append calls, in the order of the calls
RECURSIVE Rows(_)
Rows(h) == IF h = <<>> THEN <<>> ELSE Rows(SubSeq(h, 1, Len(h) - 1)) \o h[Len(h)].vector

\* C19: a scan of a column that saw Append calls only returns the appended
\* rows, all of them and no other, in the order they were appended, however
\* the rows were split into calls and into segments.
C19_ScanReturnsAppended ==
    (result.done /\ \A p \in DOMAIN history : ~IsRevertAppend(history[p]))
    => /\ Len(result.rows) = TotalAppended(history)
       /\ result.rows = Rows(history)

\* four appends, one of them split between two segments, were scanned
C19_Witness ==
    /\ result.done
    /\ Len(history) = MaxColumnOps
    /\ \A p \in DOMAIN history : ~IsRevertAppend(history[p])
    /\ Len(segments) = 2
    /\ \E p \in DOMAIN history :
          /\ TotalAppended(SubSeq(history, 1, p - 1)) < SegmentCapacity
          /\ TotalAppended(SubSeq(history, 1, p)) > SegmentCapacity
    /\ Len(result.rows) > SegmentCapacity

----------------------------------------------------------------------------
(* C20 *)

\* the one RevertAppend call of the history
TheRevert == CHOOSE p \in DOMAIN history : IsRevertAppend(history[p])

\* C20: after Append calls of N rows on a new column, RevertAppend(r) with
\* 0 <= r <= N and then any Append calls, the column has r rows plus the
\* rows appended after, and a scan returns the first r of the N rows and
\* then the rows appended after, each in the order it was appended.
C20_RevertAppendTruncates ==
    Cardinality({p \in DOMAIN history : IsRevertAppend(history[p])}) = 1
    => LET before == SubSeq(history, 1, TheRevert - 1)
           after == SubSeq(history, TheRevert + 1, Len(history))
           r == history[TheRevert].start_row
       IN  /\ r <= TotalAppended(before)
           /\ RowCount(segments) = r + TotalAppended(after)
           /\ result.done => result.rows = SubSeq(Rows(before), 1, r) \o Rows(after)

\* three full vectors were appended, RevertAppend went back to the end of
\* the second, and the scan returned the rows of two vectors
C20_Witness ==
    /\ result.done
    /\ Len(history) = 4
    /\ \A p \in 1..3 : Len(history[p].vector) = STANDARD_VECTOR_SIZE
    /\ history[4] = RevertAppendCall(2 * STANDARD_VECTOR_SIZE)
    /\ Len(result.rows) = 2 * STANDARD_VECTOR_SIZE
    /\ result.rows = [k \in 1..(2 * STANDARD_VECTOR_SIZE) |-> k]

----------------------------------------------------------------------------
(* C21 *)

\* the step is RevertAppend(r) on a column of r rows, or RevertAppend(r)
\* right after RevertAppend(r)
RepeatsRevertAppend ==
    /\ Len(history') = Len(history) + 1
    /\ IsRevertAppend(history'[Len(history')])
    /\ LET r == history'[Len(history')].start_row
       IN  \/ r = RowCount(segments)
           \/ history # <<>> /\ history[Len(history)] = RevertAppendCall(r)

\* C21: RevertAppend to the row count the column has, and RevertAppend(r)
\* after RevertAppend(r), leave the segments as they are: their starts,
\* their counts, and every value of their blocks.
C21_Step == RepeatsRevertAppend => segments' = segments

C21_RevertAppendIdempotent == [][C21_Step]_vars

\* rows were appended into two segments and RevertAppend went twice to the
\* same row of the first
C21_Witness ==
    /\ Len(history) = MaxColumnOps
    /\ IsRevertAppend(history[Len(history)])
    /\ history[Len(history) - 1] = history[Len(history)]
    /\ history[Len(history)].start_row > 0
    /\ history[Len(history)].start_row < TotalAppended(history)
    /\ RowCount(segments) = history[Len(history)].start_row

----------------------------------------------------------------------------
(* C22: the promotion of a persistent segment *)

\* a step that constructs the TransientSegment of the persistent segment
Promotes == transient = <<>> /\ transient' # <<>>

\* C22: the TransientSegment made from a PersistentSegment has its start, its
\* count, its type, its statistics and its stored values, and the persistent
\* segment is left with neither the data nor the statistics; from then on the
\* persistent segment holds no data, whatever is appended to the transient one
C22_Step ==
    /\ Promotes =>
          LET p == persistent[1]
              t == transient'[1]
          IN  /\ t.start = p.start
              /\ t.count = p.count
              /\ t.type = p.type
              /\ t.stats = p.stats[1]
              /\ t.tuple_count = p.data[1].tuple_count
              /\ t.block = p.data[1].block
    /\ transient' # <<>> => persistent'[1].data = <<>> /\ persistent'[1].stats = <<>>
C22_PromotionMovesSegment == [][C22_Step]_vars

\* a segment of two rows or more, read from the file, has been promoted
C22_Witness ==
    /\ transient # <<>>
    /\ persistent[1].data = <<>>
    /\ persistent[1].block_id < MAXIMUM_BLOCK
    /\ transient[1].block_id = MAXIMUM_BLOCK
    /\ transient[1].start = SegmentCapacity
    /\ transient[1].count = persistent[1].count
    /\ transient[1].count > 1
    /\ transient[1].block[2] = CommittedValue(SegmentCapacity + 1)

----------------------------------------------------------------------------
(* C23: IndexScan and pending updates *)

\* a step of IndexScan that returns something else than the last one
IndexScans == index_scan' # index_scan

\* C23: IndexScan fails with ConcurrentModification exactly when the vector it
\* scans has an update of a transaction that has not committed and the caller
\* does not allow pending updates; otherwise it returns the committed values
\* of the vector; a failed IndexScan changes neither the data nor the update
\* chains
C23_Step ==
    IndexScans =>
        LET r == index_scan'
            pending == HasUncommittedUpdates(version, updates.chains, r.vector_index)
        IN  /\ r.error = "ConcurrentModification" <=> (pending /\ ~r.allow_pending_updates)
            /\ r.error # "ConcurrentModification" =>
                  /\ r.error = "none"
                  /\ r.rows = FetchCommitted(0, r.vector_index)
            /\ r.error = "ConcurrentModification" =>
                  /\ r.rows = <<>>
                  /\ UNCHANGED <<updates, undo_log, undo_info, version, segments>>
C23_IndexScanPendingUpdates == [][C23_Step]_vars

\* IndexScan has failed on the vector that the transaction, and no other,
\* has updated and not committed, and the chain of the vector is still there
C23_Witness ==
    /\ index_scan.error = "ConcurrentModification"
    /\ status = "running"
    /\ LET chain == updates.chains[index_scan.vector_index]
       IN  /\ Len(chain) = 2
           /\ chain[1].entry # 0
           /\ version[chain[1].entry] = transaction_id
           /\ chain[2].version_number = OldCommitId
    /\ \E v \in Batches : ~HasUncommittedUpdates(version, updates.chains, v)

----------------------------------------------------------------------------
(* C24: zonemap pruning *)

\* the comparison filters, with constants below, among and above the values
\* of the column
Filters ==
    [comparison_type : ComparisonTypes,
     constant : 0..(MaxColumnOps * STANDARD_VECTOR_SIZE + 1)]

\* a row of the vector of the segment satisfies the filter
HasSatisfyingRow(seg, vector_index, filter) ==
    LET rows == ScanVector(seg, vector_index)
    IN  \E k \in DOMAIN rows : Satisfies(rows[k], filter)

\* C24: on a segment whose statistics Append has kept, CheckZonemap rejects
\* no vector that has a row that satisfies the filter, for every comparison
\* filter
C24_ZonemapSound ==
    \A s \in DOMAIN segments : \A filter \in Filters :
        \A vector_index \in 0..(SegmentVectors - 1) :
            HasSatisfyingRow(segments[s], vector_index, filter)
            => CheckZonemap(segments[s].stats, filter)

\* after appends and a RevertAppend, a segment with rows has a filter that
\* CheckZonemap accepts though no row satisfies it, one that it accepts and a
\* row satisfies, and one that it rejects
C24_Witness ==
    /\ \E k \in DOMAIN history : IsRevertAppend(history[k])
    /\ \E s \in DOMAIN segments :
        /\ segments[s].count > 1
        /\ \E filter \in Filters :
              /\ CheckZonemap(segments[s].stats, filter)
              /\ \A v \in 0..(SegmentVectors - 1) : ~HasSatisfyingRow(segments[s], v, filter)
        /\ \E filter \in Filters :
              /\ filter.comparison_type = "COMPARE_EQUAL"
              /\ CheckZonemap(segments[s].stats, filter)
              /\ HasSatisfyingRow(segments[s], 0, filter)
        /\ \E filter \in Filters : ~CheckZonemap(segments[s].stats, filter)

----------------------------------------------------------------------------
(* C25: MergeStatistics of concurrent writers *)

\* the statistics cover the other ones
Covers(stats, other) ==
    /\ stats.min <= other.min
    /\ stats.max >= other.max
    /\ other.has_null => stats.has_null

\* the statistics of the column and of every writer, merged
RECURSIVE MergedUpTo(_)
MergedUpTo(w) ==
    IF w = 0 THEN InitialStatistics ELSE Merge(MergedUpTo(w - 1), writers[w].other)

AllMerged == \A w \in Writers : writers[w].pc = "done"

\* C25: writers merge their statistics at the same time under the stats
\* lock: the statistics of the column never shrink, they cover the statistics
\* of every writer that has merged, only the writer that holds the lock is
\* inside MergeStatistics, and when all have merged the statistics are the
\* pointwise merge of all, whatever the order
C25_Step ==
    /\ Covers(statistics', statistics)
    /\ \A w \in Writers :
          /\ writers'[w].pc \in {"written", "done"} => Covers(statistics', writers'[w].other)
          /\ writers'[w].pc \in {"locked", "read", "written"} => stats_lock' = w
    /\ AllMerged' => statistics' = MergedUpTo(MaxWriters)'
C25_MergeStatisticsSerialized == [][C25_Step]_vars

\* all writers have merged: the first lowered the minimum, the last raised
\* the maximum and brought a null, and the statistics have all of it
C25_Witness ==
    /\ AllMerged
    /\ stats_lock = 0
    /\ writers[1].other = Statistics(1, 2, FALSE)
    /\ writers[MaxWriters].other = Statistics(2, 3, TRUE)
    /\ statistics = Statistics(1, 3, TRUE)

----------------------------------------------------------------------------
(* C26: one undo entry for the updates of a vector by a transaction *)

\* the undo entries of the transaction for the vector
UpdateEntriesOf(vector_index) ==
    {i \in DOMAIN undo_log : /\ undo_log[i].type = "UPDATE_TUPLE"
                             /\ undo_info[i].vector_index = vector_index}

\* the calls of the commit with the operation op for the vector
UpdateCallsOf(op, vector_index) ==
    {k \in DOMAIN trace : /\ trace[k].op = op
                          /\ trace[k].entry \in UpdateEntriesOf(vector_index)}

\* C26: however often the transaction updates the rows of a vector, its undo
\* log has one Row-Update entry for each vector it updated and none for the
\* others; when it has committed, the version number of each updated vector
\* was set once, and at most one update record of the vector is in the log
C26_OneUndoEntryPerBatch ==
    /\ \A v \in Batches :
          Cardinality(UpdateEntriesOf(v)) = IF v \in updates.affected THEN 1 ELSE 0
    /\ status = "committed" =>
          \A v \in updates.affected :
              /\ Cardinality(UpdateCallsOf("version_number", v)) = 1
              /\ Cardinality(UpdateCallsOf("WriteUpdate", v)) =
                    IF LogsRow(has_log, undo_log[1]) THEN 1 ELSE 0

\* the transaction updated the same row twice and has committed with a log:
\* one undo entry, one stamp, one update record
C26_Witness ==
    /\ status = "committed"
    /\ updates.calls = MaxUpdateCalls
    /\ Len(undo_log) = 1
    /\ undo_info[1].N = 1
    /\ has_log
    /\ updates.table = "A"
    /\ Cardinality(UpdateCallsOf("WriteUpdate", undo_info[1].vector_index)) = 1
    /\ version[1] = commit_id

----------------------------------------------------------------------------
(* C27: the live row count over a commit and its revert *)

\* the live rows of the table before the commit: the rows that the
\* transaction did not delete
CardinalityBeforeCommit(table) ==
    Cardinality(RowIds) - Cardinality(DeletedIn(undo_log, undo_info, table))

\* C27: when the deletions of the transaction were committed and the commit
\* was reverted, the live row count of the table is what it was before the
\* commit, whatever the counts of the entries, with or without a log
C27_CommitRevertKeepsCardinality ==
    status = "reverted" => \A table \in Tables : cardinality[table] = CardinalityBeforeCommit(table)

----------------------------------------------------------------------------
(* C28: the version number of an update over commit and revert *)

\* the step of CommitEntry that stamps the update at pos
StampsUpdate ==
    /\ status = "committing"
    /\ Entry.type = "UPDATE_TUPLE"
    /\ CurrentStep = "stamp"
    /\ trace' # trace

\* the step of RevertCommit on the update at pos
RevertsUpdate ==
    /\ status = "reverting"
    /\ Entry.type = "UPDATE_TUPLE"
    /\ trace' # trace

\* C28: the commit of an update sets its version number to the commit id,
\* with or without a log, on a permanent or a temporary table; the revert
\* sets it to the transaction id; neither changes the version number of
\* another entry, nor the tuples, the count or the vector of any entry
C28_Step ==
    /\ StampsUpdate =>
          /\ version' = [version EXCEPT ![pos] = NewCommitId]
          /\ undo_info' = undo_info
    /\ RevertsUpdate =>
          /\ version' = [version EXCEPT ![pos] = transaction_id]
          /\ undo_info' = undo_info
    /\ status # "running" => undo_info' = undo_info /\ undo_log' = undo_log
    /\ status' = "committed" => \A i \in DOMAIN undo_log : version'[i] = NewCommitId
    /\ status' = "reverted" => \A i \in 1..end_pos' : version'[i] = transaction_id
C28_UpdateVersionNumber == [][C28_Step]_vars

\* two updates of a temporary table were committed where a log exists, with
\* no record in the log, and then reverted
C28_Witness ==
    /\ status = "reverted"
    /\ has_log
    /\ updates.table = "T"
    /\ Len(undo_log) = 2
    /\ Wal = <<>>
    /\ \A i \in DOMAIN undo_log :
          /\ version[i] = transaction_id
          /\ \E k \in DOMAIN trace :
                /\ trace[k].op = "version_number"
                /\ trace[k].entry = i
                /\ trace[k].id = NewCommitId

----------------------------------------------------------------------------
(* C29: catalog changes that WriteCatalogEntry does not know *)

\* the drop of an entry of a type that is not table, schema, view, sequence,
\* macro or prepared statement, or a change whose parent is of no handled kind
Unsupported(e) ==
    \/ /\ e.parent_type = "DELETED_ENTRY"
       /\ e.entry_type \notin {"TABLE_ENTRY", "SCHEMA_ENTRY", "VIEW_ENTRY", "SEQUENCE_ENTRY",
                               "MACRO_ENTRY", "PREPARED_STATEMENT"}
    \/ e.parent_type \notin {"TABLE_ENTRY", "SCHEMA_ENTRY", "VIEW_ENTRY", "SEQUENCE_ENTRY",
                             "MACRO_ENTRY", "DELETED_ENTRY", "INDEX_ENTRY",
                             "PREPARED_STATEMENT", "AGGREGATE_FUNCTION_ENTRY",
                             "SCALAR_FUNCTION_ENTRY", "TABLE_FUNCTION_ENTRY",
                             "COPY_FUNCTION_ENTRY", "PRAGMA_FUNCTION_ENTRY", "COLLATION_ENTRY"}

\* CommitEntry takes the step of the catalog change at pos that writes to
\* the log, where there is one
WritesCatalog ==
    /\ has_log
    /\ status = "committing"
    /\ IsCatalog(Entry)
    /\ CurrentStep = "write"
    /\ <<pos, step, status>>' # <<pos, step, status>>

RaisesNotImplemented ==
    /\ status' = "failed"
    /\ error' = "NotImplementedException"
    /\ trace' = trace

\* C29 as claimed: the commit with a log of every unsupported catalog change
\* raises NotImplementedException and writes nothing to the log
C29_Claimed == (WritesCatalog /\ Unsupported(Entry)) => RaisesNotImplemented
C29_UnsupportedThrows == [][C29_Claimed]_vars

\* C29: the commit with a log of an unsupported catalog change, neither the
\* entry nor its parent temporary, raises NotImplementedException and writes
\* nothing to the log; of a temporary one it raises nothing and writes nothing
C29_Amended ==
    (WritesCatalog /\ Unsupported(Entry)) =>
        IF Entry.temporary \/ Entry.parent_temporary
        THEN status' # "failed" /\ error' = "none" /\ trace' = trace
        ELSE RaisesNotImplemented
C29_UnsupportedPermanentThrows == [][C29_Amended]_vars

\* the drop of an index that is not temporary has raised the exception, after
\* the stamp and with nothing in the log
C29_Witness ==
    /\ status = "failed"
    /\ error = "NotImplementedException"
    /\ has_log
    /\ Entry.parent_type = "DELETED_ENTRY"
    /\ Entry.entry_type = "INDEX_ENTRY"
    /\ ~Entry.temporary /\ ~Entry.parent_temporary
    /\ timestamp[pos].parent = NewCommitId
    /\ Wal = <<>>

----------------------------------------------------------------------------
(* C30: the count of a TransientSegment and the tuple count of its block *)

\* the count of every segment is the tuple count of its block
CountIsTupleCount(tree) == \A s \in DOMAIN tree : tree[s].count = tree[s].tuple_count

\* a call was made on the column
Called == Len(history') = Len(history) + 1

\* C30: over every sequence of Append and RevertAppend, the count of each
\* TransientSegment is the tuple count of its block. An Append raises the
\* count of a segment by the rows its block took, never by more than were
\* asked for, and the rows go on in the next segment from the first the block
\* did not take, so the counts rise by the rows of the call in all. A
\* RevertAppend(r) on the segment of r sets its count to r - start, which is
\* not above its count
C30_Step ==
    /\ CountIsTupleCount(segments) /\ CountIsTupleCount(segments')
    /\ (Called /\ ~IsRevertAppend(history'[Len(history')])) =>
          LET requested == Len(history'[Len(history')].vector)
              tree == InitializeAppend(segments)
          IN  /\ RowCount(segments') = RowCount(segments) + requested
              /\ \A s \in DOMAIN segments' :
                    LET before == IF s \in DOMAIN tree THEN tree[s].count ELSE 0
                    IN  /\ segments'[s].count >= before
                        /\ segments'[s].count - before <= requested
                        /\ s < Len(tree) => segments'[s] = tree[s]
    /\ (Called /\ IsRevertAppend(history'[Len(history')])) =>
          LET r == history'[Len(history')].start_row
              s == GetSegmentIndex(segments, r)
          IN  /\ segments[s].start <= r /\ r <= segments[s].start + segments[s].count
              /\ Len(segments') = s
              /\ segments'[s].count = r - segments[s].start
              /\ segments'[s].count <= segments[s].count
              /\ \A k \in 1..(s - 1) : segments'[k] = segments[k]
C30_CountFollowsBlock == [][C30_Step]_vars

\* after a RevertAppend into the first segment, an Append of a whole vector
\* filled the first segment and went on in a second one
C30_Witness ==
    /\ Len(history) > 2
    /\ ~IsRevertAppend(history[Len(history)])
    /\ Len(history[Len(history)].vector) = STANDARD_VECTOR_SIZE
    /\ \E p \in DOMAIN history : IsRevertAppend(history[p]) /\ history[p].start_row > 0
    /\ Len(segments) = 2
    /\ segments[1].count = SegmentCapacity
    /\ segments[1].tuple_count = SegmentCapacity
    /\ segments[2].count \in 1..(STANDARD_VECTOR_SIZE - 1)
    /\ segments[2].tuple_count = segments[2].count

----------------------------------------------------------------------------
(* C31: the row ranges PandasScanParallelStateNext hands out *)

\* the end of the last range handed out
HandedOut == IF ranges = <<>> THEN 0 ELSE ranges[Len(ranges)].end

\* the ranges handed out are not empty, hold at most one partition, and each
\* starts where the one handed out before it ends, the first at row 0: they
\* are disjoint, in increasing order, and cover the rows before HandedOut once
RangesInOrder ==
    \A i \in DOMAIN ranges :
        /\ ranges[i].start < ranges[i].end
        /\ ranges[i].end - ranges[i].start <= PANDAS_PARTITION_COUNT
        /\ ranges[i].end <= bind_data.row_count
        /\ ranges[i].start = IF i = 1 THEN 0 ELSE ranges[i - 1].end

\* between the calls the position is the end of the last range, within the
\* data frame; a call has returned false only after every row was handed out
C31_State ==
    /\ RangesInOrder
    /\ parallel_state.lock = 0 =>
        /\ parallel_state.position = HandedOut
        /\ parallel_state.position <= bind_data.row_count
    /\ \A t \in ScanThreads :
        /\ scan_states[t].returned = "false" => HandedOut = bind_data.row_count
        /\ (scan_states[t].returned = "true" /\ scan_states[t].pc = "idle") =>
            \E i \in DOMAIN ranges :
                /\ ranges[i].thread = t
                /\ ranges[i].end = scan_states[t].end
                /\ ranges[i].start <= scan_states[t].start
                /\ scan_states[t].start <= scan_states[t].end

\* a call returns with one more range or with none; a call that finds every
\* row handed out returns false, and a call that returns false leaves the
\* state of its caller and the position as they are
C31_Step ==
    /\ \/ ranges' = ranges
       \/ /\ Len(ranges') = Len(ranges) + 1
          /\ SubSeq(ranges', 1, Len(ranges)) = ranges
    /\ HandedOut' >= HandedOut
    /\ \A t \in ScanThreads :
        (scan_states[t].pc \in {"init_check", "check"} /\ scan_states'[t] # scan_states[t]) =>
            /\ HandedOut = bind_data.row_count => scan_states'[t].returned = "false"
            /\ scan_states'[t].returned = "false" =>
                /\ scan_states'[t].pc \in {"idle", "done"}
                /\ scan_states'[t].start = scan_states[t].start
                /\ scan_states'[t].end = scan_states[t].end
                /\ parallel_state'.position = parallel_state.position
                /\ ranges' = ranges
            /\ scan_states'[t].returned # "false" => scan_states'[t].pc = "start"

\* C31: for any number of threads that call PandasScanParallelStateNext on
\* one parallel state, the row ranges handed out are pairwise disjoint, not
\* empty, of at most PANDAS_PARTITION_COUNT rows, handed out in increasing
\* order, and cover the rows of the data frame once; between the calls the
\* position never decreases and never exceeds row_count, and once it is
\* row_count every call returns false and leaves the state of its caller
C31_ParallelRanges == [](C31_State) /\ [][C31_Step]_vars

\* every row of a data frame that ends in a short partition was handed out,
\* to more than one thread, and a call has returned false to a thread that
\* was in the middle of its range
C31_Witness ==
    /\ Len(ranges) = MaxPartitions + 1
    /\ ranges[Len(ranges)].end - ranges[Len(ranges)].start < PANDAS_PARTITION_COUNT
    /\ \E i, j \in DOMAIN ranges : ranges[i].thread # ranges[j].thread
    /\ \E t \in ScanThreads :
        /\ scan_states[t].returned = "false"
        /\ scan_states[t].pc = "idle"
        /\ scan_states[t].start < scan_states[t].end
        /\ bind_data.lines_read > 0

----------------------------------------------------------------------------
(* C32: fetchone and fetchall of a connection need an open result *)

\* the last Execute of connection c ran one parameter set of the last of at
\* least one statement without an error, and c was not closed since
HasOpenResult(c) == executed[c] = "ok" /\ connections[c].connection

\* C32: fetchone and fetchall of a connection succeed only when its most
\* recent Execute ran a single parameter set of at least one statement with
\* success; on a fresh connection, after executemany, after an Execute that
\* raised, after an Execute of a string without statements and after Close
\* they raise 'no open result set', because Execute discards the result
C32_FetchNeedsResult ==
    \A c \in DOMAIN connections :
        /\ connections[c].result # NullResult <=> HasOpenResult(c)
        /\ executed[c] \in {"never", "many", "raised", "empty"} =>
            connections[c].result = NullResult
        /\ (py_call.op \in {"fetchone", "fetchall"} /\ py_call.conn = c) =>
            py_call.error = IF HasOpenResult(c) THEN NoPyError ELSE NoOpenResultSet

\* fetchone raises 'no open result set' on an open connection whose last
\* Execute raised the error of a statement
C32_Witness ==
    /\ py_call.op = "fetchone"
    /\ py_call.error = NoOpenResultSet
    /\ executed[py_call.conn] = "raised"
    /\ connections[py_call.conn].connection

----------------------------------------------------------------------------
(* C33: Execute on a string of several statements *)

\* the statements before the last one that fail
FailedBeforeLast(statements) ==
    {i \in 1..(Len(statements) - 1) : statements[i] # "ok"}

\* the first of a set of statements
FirstOf(S) == CHOOSE i \in S : \A j \in S : i <= j

\* the statements first to last, in order
InOrder(first, last) == [i \in 1..(last - first + 1) |-> first + i - 1]

\* C33: Execute on a string of k statements runs the statements 1..k-1 in
\* order and stops at the first that fails, raising its error without
\* running a later statement and without preparing the last one; only when
\* all of them succeed is the last statement prepared and executed, and only
\* its result becomes the open result of the connection
C33_StopsAtFirstFailure ==
    (py_call.op \in {"execute", "executemany"} /\ ~py_call.closed) =>
        LET statements == py_call.statements
            k == Len(statements)
            failed == FailedBeforeLast(statements)
            open == connections[py_call.conn].result
        IN  /\ failed # {} =>
                /\ py_call.ran = InOrder(1, FirstOf(failed))
                /\ py_call.error = PyError("query", FirstOf(failed))
                /\ py_call.prepared = 0
                /\ open = NullResult
            /\ failed = {} =>
                /\ py_call.ran = InOrder(1, k - 1)
                /\ py_call.prepared = k
                /\ py_call.error.statement \in {0, k}
                /\ open \in {NullResult, OpenResult(k)}
                /\ open # NullResult =>
                    k > 0 /\ statements[k] = "ok" /\ py_call.error = NoPyError

\* the first of three statements fails: the second was not run and the third
\* was not prepared
C33_Witness ==
    /\ py_call.op = "execute"
    /\ py_call.statements = <<"runtime", "ok", "ok">>
    /\ py_call.ran = <<1>>
    /\ py_call.prepared = 0
    /\ py_call.error = PyError("query", 1)

----------------------------------------------------------------------------
(* C34: Close of a connection and of its cursors *)

\* the connections in S, their cursors, the cursors of those, and so on
RECURSIVE CursorsOf(_, _)
CursorsOf(conns, S) ==
    LET more == S \cup UNION {{conns[d].cursors[i] : i \in DOMAIN conns[d].cursors} : d \in S}
    IN  IF more = S THEN S ELSE CursorsOf(conns, more)

\* a connection that has released its result, connection and database and
\* has emptied its list of cursors
Released(conn) ==
    /\ conn.result = NullResult
    /\ ~conn.connection
    /\ ~conn.database
    /\ conn.cursors = <<>>

\* C34: Close of a connection releases its result, connection and database,
\* closes the cursors made from it with Cursor and their cursors, and empties
\* its list of cursors; it leaves every other connection, such as the parent
\* and the siblings of a cursor, as it is; a second Close changes nothing
C34_Step ==
    py_call'.op = "close" =>
        LET c == py_call'.conn
            closed == CursorsOf(connections, {c})
        IN  /\ py_call'.error = NoPyError
            /\ DOMAIN connections' = DOMAIN connections
            /\ \A d \in DOMAIN connections :
                IF d \in closed
                THEN Released(connections'[d])
                ELSE connections'[d] = connections[d]
            /\ CloseConnection(connections', c) = connections'

C34_CloseReleasesCursors == [][C34_Step]_vars

\* a cursor that had a cursor of its own was closed: both are released, and
\* the connection the cursor was made from still has its result
C34_Witness ==
    /\ py_call.op = "close"
    /\ py_call.conn = 2
    /\ Len(connections) = 3
    /\ connections[1].cursors = <<2>>
    /\ connections[1].connection
    /\ connections[1].result # NullResult
    /\ Released(connections[2])
    /\ Released(connections[3])

----------------------------------------------------------------------------
(* C35: the methods of a closed connection *)

\* the methods of a connection that need its database
DatabaseOperations ==
    {"execute", "executemany", "begin", "commit", "rollback", "cursor", "register",
     "append"} \cup RelationOperations

\* C35: after Close, every method of the connection that needs the database
\* (execute, executemany, begin, commit, rollback, cursor, table, view,
\* values, table_function, from_df, from_csv_auto, from_parquet,
\* from_arrow_table, register, append) raises 'connection closed' and never
\* reads the released connection or database
C35_ClosedOperationsFail ==
    (py_call.closed /\ py_call.op \in DatabaseOperations) =>
        /\ py_call.error = ConnectionClosed
        /\ ~py_call.undefined

----------------------------------------------------------------------------
(* C36: Fetchone and Fetchall of a result *)

\* the rows of the chunks from chunk i on, in order: chunk and offset
RECURSIVE RowsFrom(_, _)
RowsFrom(sizes, i) ==
    IF i > Len(sizes) THEN <<>>
    ELSE [offset \in 1..sizes[i] |-> <<i, offset - 1>>] \o RowsFrom(sizes, i + 1)

\* the rows fetched so far are the first rows of the result, each once; the
\* offset is within the current chunk; None is returned after the last row,
\* and a returned row is the one before the offset
C36_State ==
    LET all == RowsFrom(py_result.chunks, 1)
        fetched == py_result.fetched
        returned == py_result.returned
    IN  /\ Len(fetched) <= Len(all)
        /\ fetched = SubSeq(all, 1, Len(fetched))
        /\ ~py_result.current_chunk.null =>
            py_result.chunk_offset <= py_result.current_chunk.size
        /\ returned.kind \in {"None", "list"} => fetched = all
        /\ returned.kind = "row" =>
            /\ returned.rows = <<fetched[Len(fetched)]>>
            /\ py_result.current_chunk.index = returned.rows[1][1]
            /\ py_result.chunk_offset = returned.rows[1][2] + 1
        /\ returned.kind = "result closed" => ~py_result.result

\* a row is returned from the offset, which then grows by one, or from
\* offset 0 of a new chunk; Fetchall returns the rows not fetched before; a
\* closed result raises and returns no row
C36_Step ==
    LET all == RowsFrom(py_result.chunks, 1)
        returned == py_result'.returned
    IN  /\ returned.kind = "row" =>
            /\ py_result'.fetched = py_result.fetched \o returned.rows
            /\ returned.rows[1][2] =
                IF py_result'.current_chunk = py_result.current_chunk
                THEN py_result.chunk_offset ELSE 0
        /\ returned.kind = "list" => py_result.fetched \o returned.rows = all
        /\ ~py_result.result =>
            /\ returned.kind \in {"result closed", "none"}
            /\ py_result'.fetched = py_result.fetched
        /\ (py_result.result /\ py_result'.result) =>
            returned.kind \in {"row", "None", "list"}

----------------------------------------------------------------------------
(* C37: the capacity of the arrays of a NumpyResultConversion *)

\* C37: after every Append of a NumpyResultConversion the row count is at
\* most the capacity and the data and mask row counts of every column equal
\* the row count, and no chunk is written past the end of the arrays: for
\* chunks of at most STANDARD_VECTOR_SIZE rows and the initial capacity that
\* FetchNumpy chooses (2 * STANDARD_VECTOR_SIZE for streamed results, the
\* total row count for materialized results) one doubling always suffices
C37_AppendWithinCapacity ==
    /\ conversion.count <= conversion.capacity
    /\ ~conversion.past_end
    /\ \A c \in DOMAIN conversion.owned_data :
        /\ conversion.owned_data[c].data.count = conversion.count
        /\ conversion.owned_data[c].mask.count = conversion.count
        /\ conversion.owned_data[c].data.capacity = conversion.capacity
        /\ conversion.owned_data[c].mask.capacity = conversion.capacity
    /\ conversion.type = "MATERIALIZED_RESULT" =>
        /\ conversion.resized = 0
        /\ conversion.count + TotalCount(conversion.chunks) = conversion.capacity

\* every chunk of a streamed result was appended, and the capacity was
\* doubled twice, each time by an Append that would not have fitted
C37_Witness ==
    /\ conversion.type = "STREAM_RESULT"
    /\ conversion.chunks = <<>>
    /\ conversion.resized = 2
    /\ conversion.count > 4 * STANDARD_VECTOR_SIZE
    /\ Len(conversion.owned_data) = MaxColumns

----------------------------------------------------------------------------
(* C38: get_next, get_schema, get_last_error and release of the stream *)

\* C38: get_next hands out the record batches in index order, each once,
\* and after the last batch it returns 0 with the release pointer of the
\* output cleared; after release, get_schema and get_next return -1,
\* get_last_error reports 'stream was released', and a second release does
\* nothing
C38_StreamProtocol ==
    LET returned == arrow_stream.returned
    IN  /\ arrow_stream.exported = InOrder(1, Len(arrow_stream.exported))
        /\ Len(arrow_stream.exported) <= arrow_stream.batches
        /\ (returned.op = "get_next" /\ arrow_stream.release) =>
            /\ returned.code = 0
            /\ \/ returned.out = 0 /\ Len(arrow_stream.exported) = arrow_stream.batches
               \/ returned.out > 0 /\ returned.out = Len(arrow_stream.exported)
        /\ ~arrow_stream.release =>
            /\ returned.message # "segfault"
            /\ returned.op \in {"get_schema", "get_next"} => returned.code = -1
            /\ returned.op = "get_last_error" => returned.message = "stream was released"
            /\ returned.op = "release" => returned.code = 0

=============================================================================
